---- MODULE Spec2Model ----
(***************************************************************************)
(* RadioLive (src/app.js): bulletin probing, playback session, metadata    *)
(* polling and the recurring timers, as a state machine with one action    *)
(* per event handler.  Strings are sequences of tokens: a digit is a       *)
(* one-character token, a fixed piece of text is one token.                *)
(***************************************************************************)
EXTENDS Integers, Sequences, FiniteSets, TLC

\* ------------------------------------------------------------------ bounds
\* each specification bounds the length of its runs: bulletin-button clicks,
\* loadStation calls, hour boundaries the zone clock passes, metadata fetches
\* started, showToast calls
ProbeMaxRequests == 2
ProbeMaxLoads == 2
ProbeMaxTicks == 1
ProbeMaxToasts == 2
PlaybackMaxRequests == 1
PlaybackMaxLoads == 2
PlaybackMaxToasts == 1
PollMaxRequests == 1
PollMaxLoads == 3
PollMaxFetches == 3
MetaMaxLoads == 2
MetaMaxFetches == 4
LabelsMaxRequests == 1
LabelsMaxLoads == 2
LabelsMaxTicks == 1
StartMaxCalls == 2
StartMaxLoads == 2
StartMaxTicks == 2
ResolveMaxRequests == 1
ResolveMaxLoads == 1
SeekMaxRequests == 1
SeekMaxLoads == 1
ControlsMaxRequests == 1
ControlsMaxLoads == 2
OnlineMaxLoads == 1
OnlineMaxToasts == 3
OnlineMaxPending == 1
ToastMaxLoads == 2
ToastMaxToasts == 4
ToastMaxPending == 1
\* service worker: fetch events
WorkerMaxEvents == 2
\* station order: length of the URL lists found in the local storage
OrderMaxSaved == 2
OrderMaxCalls == 1
\* bulletin requests that run to their end
BulletinMaxRequests == 2
OnAirMaxLoads == 2
ScrubMaxRequests == 1
ScrubMaxLoads == 2
RetryMaxLoads == 3
SelectMaxRequests == 1
SelectMaxLoads == 2
QueueMaxToasts == 6
OnAirMaxToasts == 1
SeekMaxTime == 20    \* length of a bulletin and last playback position, seconds
PlayStep == 5        \* playback time between two timeupdate events, seconds

\* --------------------------------------------------------------- constants
MAX_TOASTS == 3
NoId == 0            \* null for handles and timer ids
Null == <<>>         \* null for strings

\* ------------------------------------------------------------ string tools
DigitChar(d) == <<"0", "1", "2", "3", "4", "5", "6", "7", "8", "9">>[d + 1]

\* String(n).padStart(2, '0') for 0 <= n <= 99
Pad2(n) == <<DigitChar(n \div 10), DigitChar(n % 10)>>

RECURSIVE NumStr(_)
\* `${n}` for a non-negative integer
NumStr(n) == IF n < 10 THEN <<DigitChar(n)>> ELSE NumStr(n \div 10) \o <<DigitChar(n % 10)>>

\* ------------------------------------------------------------------- clock
IsLeap(y) == (y % 4 = 0 /\ y % 100 # 0) \/ y % 400 = 0

DaysIn(y, m) ==
  IF m = 2 THEN (IF IsLeap(y) THEN 29 ELSE 28)
  ELSE IF m \in {4, 6, 9, 11} THEN 30 ELSE 31

\* the hour after d, in any calendar (UTC or a wall clock)
NextHour(d) ==
  IF d.hour < 23 THEN [d EXCEPT !.hour = d.hour + 1]
  ELSE IF d.day < DaysIn(d.year, d.month)
       THEN [d EXCEPT !.hour = 0, !.day = d.day + 1]
  ELSE IF d.month < 12 THEN [d EXCEPT !.hour = 0, !.day = 1, !.month = d.month + 1]
  ELSE [d EXCEPT !.hour = 0, !.day = 1, !.month = 1, !.year = d.year + 1]

\* n hours after d, for 0 <= n <= 24
AddHours(d, n) ==
  IF d.hour + n < 24 THEN [d EXCEPT !.hour = d.hour + n]
  ELSE [NextHour([d EXCEPT !.hour = 23]) EXCEPT !.hour = d.hour + n - 24]

\* 0 = Sunday
DayOfWeek(y, m, d) ==
  LET t == <<0, 3, 2, 5, 0, 3, 5, 1, 4, 6, 2, 4>>
      yy == IF m < 3 THEN y - 1 ELSE y
  IN (yy + (yy \div 4) - (yy \div 100) + (yy \div 400) + t[m] + d) % 7

FirstSunday(y, m) == 1 + ((7 - DayOfWeek(y, m, 1)) % 7)
LastSunday(y, m) == DaysIn(y, m) - DayOfWeek(y, m, DaysIn(y, m))

\* d1 is earlier than d2 (same calendar)
Before(d1, d2) ==
  \/ d1.year < d2.year
  \/ d1.year = d2.year /\ d1.month < d2.month
  \/ d1.year = d2.year /\ d1.month = d2.month /\ d1.day < d2.day
  \/ d1.year = d2.year /\ d1.month = d2.month /\ d1.day = d2.day
       /\ d1.hour < d2.hour

\* The time zone data of Pacific/Auckland: daylight saving (UTC+13) runs from
\* the last Sunday of September, 02:00 standard time, to the first Sunday of
\* April, 02:00 standard time (03:00 daylight time); otherwise UTC+12.
AucklandOffset(utc) ==
  LET std == AddHours(utc, 12)
      y == std.year
      ends == [year |-> y, month |-> 4, day |-> FirstSunday(y, 4), hour |-> 2]
      starts == [year |-> y, month |-> 9, day |-> LastSunday(y, 9), hour |-> 2]
  IN IF std.month < 4 \/ std.month > 9 THEN 13
     ELSE IF std.month > 4 /\ std.month < 9 THEN 12
     ELSE IF Before(std, ends) \/ ~Before(std, starts) THEN 13 ELSE 12

\* Intl.DateTimeFormat('en-NZ', {timeZone: 'Pacific/Auckland', ...})
\* .formatToParts(now): the year, month, day and hour parts, as strings
formatToParts(utc) ==
  LET w == AddHours(utc, AucklandOffset(utc))
  IN [year |-> NumStr(w.year), month |-> Pad2(w.month), day |-> Pad2(w.day),
      hour |-> Pad2(w.hour)]

DigitValue ==
  [c \in {DigitChar(d) : d \in 0..9} |-> CHOOSE d \in 0..9 : DigitChar(d) = c]

RECURSIVE ParsePrefix(_, _)
\* the number written by the first n digits of str
ParsePrefix(str, n) ==
  IF n = 0 THEN 0 ELSE 10 * ParsePrefix(str, n - 1) + DigitValue[str[n]]

\* parseInt of a string of decimal digits
parseInt(str) == ParsePrefix(str, Len(str))

\* the time zones a browser runs in
LocalZones == {"UTC", "Pacific/Auckland", "Australia/Sydney"}

\* the local times that do not exist in a zone: the hour its clocks skip when
\* daylight saving starts (Auckland: last Sunday of September, Sydney: first
\* Sunday of October, both 02:00 -> 03:00)
InGap(d) ==
  \/ d.tz = "Pacific/Auckland" /\ d.month = 9 /\ d.day = LastSunday(d.year, 9)
       /\ d.hour = 2
  \/ d.tz = "Australia/Sydney" /\ d.month = 10 /\ d.day = FirstSunday(d.year, 10)
       /\ d.hour = 2

\* A Date is kept as its local fields and the zone of the browser (tz).
\* new Date(year, monthIndex, day, hours) and every setter take local fields;
\* a local time inside the gap is read with the offset before the transition,
\* which is the same minute of the next hour.
MakeLocalDate(d) == IF InGap(d) THEN [d EXCEPT !.hour = d.hour + 1] ELSE d

\* variant: an hour of -1 stays on the same day
SetHoursBack_NoBorrow(d, hoursBack) ==
  MakeLocalDate(
    IF d.hour - hoursBack >= 0 THEN [d EXCEPT !.hour = d.hour - hoursBack]
    ELSE [d EXCEPT !.hour = 23])

\* Date.prototype.setHours(getHours() - hoursBack), hoursBack in {0, 1}:
\* the Date normalises an hour of -1 by borrowing from day, month and year.
SetHoursBack(d, hoursBack) ==
  MakeLocalDate(
    IF d.hour - hoursBack >= 0 THEN [d EXCEPT !.hour = d.hour - hoursBack]
    ELSE IF d.day > 1 THEN [d EXCEPT !.hour = 23, !.day = d.day - 1]
    ELSE IF d.month > 1
         THEN [d EXCEPT !.hour = 23, !.month = d.month - 1,
                        !.day = DaysIn(d.year, d.month - 1)]
    ELSE [d EXCEPT !.hour = 23, !.day = 31, !.month = 12, !.year = d.year - 1])

\* the instant the runs start at: 31 December 2024, 23:00 in Auckland
StartClock == [year |-> 2024, month |-> 12, day |-> 31, hour |-> 10]

\* Instants the resolver is applied at: around midnight in Auckland before
\* the 1st of every month of a leap year and of a common year, and around the
\* daylight-saving transitions of Auckland (April and September) and of
\* Sydney (October).
SampleYears == {2024, 2025}

SampleInstants ==
  {[year |-> y, month |-> m, day |-> DaysIn(y, m), hour |-> h] :
     y \in SampleYears, m \in 1..12, h \in {11, 12}}
  \cup {[year |-> y, month |-> 4, day |-> FirstSunday(y, 4) - 1, hour |-> h] :
          y \in SampleYears, h \in {13, 14}}
  \cup {[year |-> y, month |-> 9, day |-> LastSunday(y, 9) - 1, hour |-> h] :
          y \in SampleYears, h \in {13, 14}}
  \cup {[year |-> y, month |-> 10, day |-> FirstSunday(y, 10) - 1, hour |-> h] :
          y \in SampleYears, h \in {13, 14}}

formatRNZDate(date) ==
  NumStr(date.year) \o Pad2(date.month) \o Pad2(date.day) \o <<"-">>
    \o Pad2(date.hour) \o <<"0", "0">>

formatZBDate(date) ==
  NumStr(date.year) \o <<".">> \o Pad2(date.month) \o <<".">> \o Pad2(date.day)
    \o <<"-">> \o Pad2(date.hour) \o <<".", "0", "0", ".", "0", "0">>

getRNZNewsURL(now, hoursBack) ==
  <<"https://", "podcast.radionz.co.nz", "/news/">>
    \o formatRNZDate(SetHoursBack(now, hoursBack)) \o <<"-064", ".mp3">>

getZBNewsURL(now, hoursBack) ==
  <<"https://", "weekondemand.newstalkzb.co.nz", "/WeekOnDemand/ZB/auckland/">>
    \o formatZBDate(SetHoursBack(now, hoursBack)) \o <<"-D", ".mp3">>

\* ---------------------------------------------------------------- stations
Types == {"rnz", "newstalkzb"}

\* name given to loadNewsBulletin by the news-button handler
BulletinName(type) == IF type = "rnz" THEN <<"RNZ">> ELSE <<"NewstalkZB">>

BFM == <<"95bFM">>

\* data-url / data-name of the station buttons
Stations ==
  { [url |-> <<"https://", "centova.geckohost.nz", "/stream">>, name |-> BFM],
    [url |-> <<"https://", "stream-ice.radionz.co.nz", "/national">>,
     name |-> <<"RNZ National">>],
    [url |-> <<"https://", "playerservices.streamtheworld.com", "/live">>,
     name |-> <<"NewstalkZB">>] }

\* parsed.pathname.endsWith('.mp3') || known host
isBulletinUrl(url) ==
  \/ url[Len(url)] = ".mp3"
  \/ url[2] \in {"podcast.radionz.co.nz", "weekondemand.newstalkzb.co.nz"}

\* name.includes('News')
IncludesNews(name) ==
  \E i \in 1..Len(name) : name[i] \in {"NewstalkZB", ":00 News", " News"}

\* ------------------------------------------------------------------- state
VARIABLES
  clock, ticks,                 \* the instant, in UTC; hour boundaries passed
  localZone,                    \* time zone of the browser
  probes, currentTestAudio,     \* every probe handle made; the tracked one
  nreq,                         \* loadNewsBulletin calls so far
  loadedBulletinTimes, newsTime,\* markers; text of the two news-time labels
  nowPlaying, playPauseDisabled,
  audios, audio,                \* every playback handle made; the live one
  currentAudioListeners, currentStation,
  loading, playing, onAir, controlsVisible,
  intervals, nextTimer,         \* active setInterval timers; next timer id
  newsUpdateInterval, bfmNowPlayingInterval, isPlayerInitialized,
  lastBfmTrackInfo, bfmMetadataFailures, pendingFetches, nfetch,
  refreshBtnShown,
  toasts, toastQueue, activeToasts,
  consecFails, warningsInRun,   \* history: current run of failed fetches
  isScrubbing, scrubSlider,     \* drag flag; value and max of the scrub slider
  registrations,                \* times the button handlers were registered
  initCalls,                    \* history: initializePlayer calls so far
  online, statusOffline,        \* navigator.onLine; #online-status reads Offline
  stationsHtml,                 \* data-url of the station buttons, as in the page
  stationsList,                 \* data-url of the station buttons, as displayed
  stationOrderV1,               \* localStorage item 'stationOrderV1'
  tornDown,
  swState,                      \* life cycle of the service worker
  cache,                        \* the entries of the cache CACHE_NAME
  swEvents,                     \* every fetch event dispatched to the worker
  swPuts                        \* cache.put calls started and not yet done

appVars ==
  <<clock, ticks, localZone, probes, currentTestAudio, nreq, loadedBulletinTimes, newsTime,
    nowPlaying, playPauseDisabled, audios, audio, currentAudioListeners,
    currentStation, loading, playing, onAir, controlsVisible, intervals,
    nextTimer, newsUpdateInterval, bfmNowPlayingInterval, isPlayerInitialized,
    lastBfmTrackInfo, bfmMetadataFailures, pendingFetches, nfetch,
    refreshBtnShown, toasts, toastQueue, activeToasts, consecFails,
    warningsInRun, isScrubbing, scrubSlider, registrations, initCalls,
    online, statusOffline, stationsHtml, stationsList, stationOrderV1,
    tornDown>>

swVars == <<swState, cache, swEvents, swPuts>>

vars == <<appVars, swVars>>

\* the program state as one record, so that a handler can call another
State ==
  [clock |-> clock, ticks |-> ticks, localZone |-> localZone, probes |-> probes,
   currentTestAudio |-> currentTestAudio, nreq |-> nreq,
   loadedBulletinTimes |-> loadedBulletinTimes, newsTime |-> newsTime,
   nowPlaying |-> nowPlaying, playPauseDisabled |-> playPauseDisabled,
   audios |-> audios, audio |-> audio,
   currentAudioListeners |-> currentAudioListeners,
   currentStation |-> currentStation, loading |-> loading, playing |-> playing,
   onAir |-> onAir, controlsVisible |-> controlsVisible,
   intervals |-> intervals, nextTimer |-> nextTimer,
   newsUpdateInterval |-> newsUpdateInterval,
   bfmNowPlayingInterval |-> bfmNowPlayingInterval,
   isPlayerInitialized |-> isPlayerInitialized,
   lastBfmTrackInfo |-> lastBfmTrackInfo,
   bfmMetadataFailures |-> bfmMetadataFailures,
   pendingFetches |-> pendingFetches, nfetch |-> nfetch,
   refreshBtnShown |-> refreshBtnShown, toasts |-> toasts,
   toastQueue |-> toastQueue, activeToasts |-> activeToasts,
   consecFails |-> consecFails,
   warningsInRun |-> warningsInRun, isScrubbing |-> isScrubbing,
   scrubSlider |-> scrubSlider, registrations |-> registrations,
   initCalls |-> initCalls,
   online |-> online, statusOffline |-> statusOffline,
   stationsHtml |-> stationsHtml, stationsList |-> stationsList,
   stationOrderV1 |-> stationOrderV1,
   tornDown |-> tornDown]

Becomes(s) ==
  /\ clock' = s.clock /\ ticks' = s.ticks /\ localZone' = s.localZone
  /\ probes' = s.probes
  /\ currentTestAudio' = s.currentTestAudio /\ nreq' = s.nreq
  /\ loadedBulletinTimes' = s.loadedBulletinTimes /\ newsTime' = s.newsTime
  /\ nowPlaying' = s.nowPlaying /\ playPauseDisabled' = s.playPauseDisabled
  /\ audios' = s.audios /\ audio' = s.audio
  /\ currentAudioListeners' = s.currentAudioListeners
  /\ currentStation' = s.currentStation /\ loading' = s.loading
  /\ playing' = s.playing /\ onAir' = s.onAir
  /\ controlsVisible' = s.controlsVisible
  /\ intervals' = s.intervals /\ nextTimer' = s.nextTimer
  /\ newsUpdateInterval' = s.newsUpdateInterval
  /\ bfmNowPlayingInterval' = s.bfmNowPlayingInterval
  /\ isPlayerInitialized' = s.isPlayerInitialized
  /\ lastBfmTrackInfo' = s.lastBfmTrackInfo
  /\ bfmMetadataFailures' = s.bfmMetadataFailures
  /\ pendingFetches' = s.pendingFetches /\ nfetch' = s.nfetch
  /\ refreshBtnShown' = s.refreshBtnShown /\ toasts' = s.toasts
  /\ toastQueue' = s.toastQueue /\ activeToasts' = s.activeToasts
  /\ consecFails' = s.consecFails
  /\ warningsInRun' = s.warningsInRun
  /\ isScrubbing' = s.isScrubbing /\ scrubSlider' = s.scrubSlider
  /\ registrations' = s.registrations /\ initCalls' = s.initCalls
  /\ online' = s.online /\ statusOffline' = s.statusOffline
  /\ stationsHtml' = s.stationsHtml /\ stationsList' = s.stationsList
  /\ stationOrderV1' = s.stationOrderV1
  /\ tornDown' = s.tornDown
  /\ UNCHANGED swVars

\* no toast has more than pending removals scheduled
PendingWithin(pending) == \A i \in 1..Len(toasts) : toasts[i].removals <= pending

RECURSIVE PendingRemovals(_, _)
\* the removals scheduled and not yet run, of the first n toasts of ts
PendingRemovals(ts, n) ==
  IF n = 0 THEN 0 ELSE PendingRemovals(ts, n - 1) + ts[n].removals

\* the run stays inside the bounds
Within(requests, loads, ticking, fetches, toasting) ==
  /\ nreq <= requests
  /\ Len(audios) <= loads
  /\ ticks <= ticking
  /\ nfetch <= fetches
  /\ Len(toasts) <= toasting

\* --------------------------------------------------------------- durations
NaN == -1            \* audio.duration before the metadata is known
Infinity == -2       \* audio.duration of a live stream

\* ------------------------------------------------------------------ toasts
NoRetry == [set |-> FALSE, url |-> Null, name |-> Null]

\* shown: the toast is in the container; timer: its auto-remove timer is
\* pending; removals: removeToast callbacks pending.  History field: queued,
\* the toast was put in the queue when it was made.
showToast(s, kind, duration, retry) ==
  LET id == Len(s.toasts) + 1
      t == [kind |-> kind, duration |-> duration, retry |-> retry,
            shown |-> FALSE, timer |-> FALSE, removals |-> 0, queued |-> FALSE]
  IN IF s.activeToasts >= MAX_TOASTS
     THEN [s EXCEPT !.toasts = Append(@, [t EXCEPT !.queued = TRUE]),
                    !.toastQueue = Append(@, id)]
     ELSE [s EXCEPT !.toasts = Append(@, [t EXCEPT !.shown = TRUE,
                                                   !.timer = duration > 0]),
                    !.activeToasts = @ + 1]

\* ------------------------------------------------------------ news labels
\* app.js 279-315: the parts of the instant in Pacific/Auckland, parsed and
\* given to new Date(...) as local fields
getNZDTTime(s) ==
  LET dateParts == formatToParts(s.clock)
  IN MakeLocalDate([year |-> parseInt(dateParts.year),
                    month |-> parseInt(dateParts.month),
                    day |-> parseInt(dateParts.day),
                    hour |-> parseInt(dateParts.hour), tz |-> s.localZone])

\* variant: the labels are rewritten whatever the markers
updateNewsButtonTimes_IgnoresMarker(s) ==
  LET timeStr == Pad2(getNZDTTime(s).hour) \o <<":00">>
  IN [s EXCEPT !.newsTime = [type \in Types |-> timeStr \o <<" bulletin">>]]

\* app.js 352-373
updateNewsButtonTimes(s) ==
  LET timeStr == Pad2(getNZDTTime(s).hour) \o <<":00">>
      lbl(type) == IF s.loadedBulletinTimes[type] = Null
                   THEN timeStr \o <<" bulletin">> ELSE s.newsTime[type]
  IN [s EXCEPT !.newsTime = [type \in Types |-> lbl(type)]]

\* --------------------------------------------------------- metadata fetch
\* fetch95bFMNowPlaying up to its await: returns at once unless station X is
\* current, otherwise leaves one request in flight
fetch95bFMNowPlaying(s) ==
  IF ~s.currentStation.set \/ s.currentStation.name # BFM THEN s
  ELSE [s EXCEPT !.pendingFetches = @ + 1, !.nfetch = @ + 1]

\* ------------------------------------------------------------- loadStation
Listener(event, a) == [event |-> event, h |-> a]

\* audio.removeEventListener for every tracked {event, handler}
RemoveTracked(listeners, tracked) ==
  SelectSeq(listeners, LAMBDA l : \A i \in 1..Len(tracked) : tracked[i] # l)

\* variant: the old handle is dropped with its observers still attached
cleanupOldAudio_KeepsObservers(s) ==
  IF s.audio = NoId THEN s
  ELSE [s EXCEPT !.audios[s.audio].paused = TRUE,
                 !.currentAudioListeners = <<>>,
                 !.audio = NoId]

\* variant: the tracked list is never emptied
cleanupOldAudio_KeepsTracked(s) ==
  IF s.audio = NoId THEN s
  ELSE [s EXCEPT !.audios[s.audio].paused = TRUE,
                 !.audios[s.audio].listeners =
                     RemoveTracked(@, s.currentAudioListeners),
                 !.audio = NoId]

\* app.js 920-928
cleanupOldAudio(s) ==
  IF s.audio = NoId THEN s
  ELSE [s EXCEPT !.audios[s.audio].paused = TRUE,
                 !.audios[s.audio].listeners =
                     RemoveTracked(@, s.currentAudioListeners),
                 !.currentAudioListeners = <<>>,
                 !.audio = NoId]

WithObservers(s) == {a \in 1..Len(s.audios) : s.audios[a].listeners # <<>>}

\* audio = new Audio(url).  url and name are what the handlers of this load
\* close over.  History fields: req is the bulletin request the load resolves
\* (0: none); observedBefore and othersPaused are the handles that still carry
\* observers, and whether every earlier handle is paused, at this moment;
\* probeAttached: a probe of the request still has its listeners attached at
\* this moment;
\* metadata: loadedmetadata was dispatched; held: the handle was playing and
\* was paused by the play/pause button, by the media session or because the
\* connection was lost, and play() was not called on it since.
createAudio(s, url, name, req) ==
  [s EXCEPT !.audios = Append(@, [url |-> url, name |-> name, paused |-> TRUE,
                                  listeners |-> <<>>, duration |-> NaN,
                                  seekable |-> FALSE, currentTime |-> 0,
                                  metadata |-> FALSE, req |-> req,
                                  held |-> FALSE,
                                  observedBefore |-> WithObservers(s),
                                  probeAttached |->
                                    \E p \in 1..Len(s.probes) :
                                      /\ s.probes[p].req = req
                                      /\ s.probes[p].listeners # {},
                                  othersPaused |->
                                    \A a \in 1..Len(s.audios) : s.audios[a].paused]),
            !.audio = Len(s.audios) + 1]

\* audio.addEventListener(event, handler); currentAudioListeners.push(...)
attach(s, event) ==
  [s EXCEPT !.audios[s.audio].listeners = Append(@, Listener(event, s.audio)),
            !.currentAudioListeners = Append(@, Listener(event, s.audio))]

RECURSIVE attachAll(_, _)
attachAll(s, events) ==
  IF events = <<>> THEN s ELSE attachAll(attach(s, Head(events)), Tail(events))

isFinite(x) == x # NaN /\ x # Infinity

MathMax(a, b) == IF a >= b THEN a ELSE b
MathMin(a, b) == IF a <= b THEN a ELSE b

\* variant: a non-empty seekable range is enough
isSeekableAudio_IgnoresDuration(s) ==
  /\ s.audio # NoId
  /\ s.audios[s.audio].seekable

\* app.js 603-605
isSeekableAudio(s) ==
  /\ s.audio # NoId
  /\ isFinite(s.audios[s.audio].duration) /\ s.audios[s.audio].duration > 0
  /\ s.audios[s.audio].seekable

\* app.js 607-625, the slider part
syncScrubUI(s) ==
  IF s.audio = NoId THEN [s EXCEPT !.scrubSlider = [value |-> 0, max |-> 100]]
  ELSE IF s.isScrubbing THEN s
  ELSE LET a == s.audios[s.audio]
           duration == IF isFinite(a.duration) THEN a.duration ELSE 0
       IN [s EXCEPT !.scrubSlider = [value |-> a.currentTime, max |-> duration]]

\* app.js 627-636; controlsVisible stands for the 'active' class and for the
\* three controls being enabled
updateBulletinControlsState(s) ==
  LET shouldShow == s.currentStation.set /\ s.currentStation.isBulletin
                      /\ isSeekableAudio(s)
      s1 == [s EXCEPT !.controlsVisible = shouldShow]
  IN IF shouldShow THEN syncScrubUI(s1) ELSE s1

\* ------------------------------------------------------------------- seeks
\* audio.currentTime = t: the official playback position becomes t
setCurrentTime(s, t) ==
  [s EXCEPT !.audios[s.audio].currentTime = t]

\* skipBackBtn click, app.js 664-669
skipBack(s) ==
  IF ~isSeekableAudio(s) THEN s
  ELSE syncScrubUI(setCurrentTime(s, MathMax(0, s.audios[s.audio].currentTime - 15)))

\* variant: the target is not clamped to the duration
skipForward_NoClamp(s) ==
  IF ~isSeekableAudio(s) THEN s
  ELSE syncScrubUI(setCurrentTime(s, s.audios[s.audio].currentTime + 15))

\* skipForwardBtn click, app.js 672-678
skipForward(s) ==
  IF ~isSeekableAudio(s) THEN s
  ELSE LET duration == s.audios[s.audio].duration
       IN syncScrubUI(setCurrentTime(s,
            MathMin(duration, s.audios[s.audio].currentTime + 15)))

\* scrubSlider input with the slider moved to value, app.js 640-646
scrubInput(s, value) ==
  LET s0 == [s EXCEPT !.scrubSlider.value = value]
  IN IF ~isSeekableAudio(s0) THEN s0
     ELSE LET target == MathMax(0, MathMin(s0.audios[s0.audio].duration, value))
          IN syncScrubUI(setCurrentTime([s0 EXCEPT !.isScrubbing = TRUE], target))

\* scrubSlider change and pointerup, app.js 648-651, 656-659
scrubRelease(s) == syncScrubUI([s EXCEPT !.isScrubbing = FALSE])

\* scrubSlider pointerdown, app.js 653-655
scrubPointerDown(s) == [s EXCEPT !.isScrubbing = TRUE]

\* details.seekOffset || 15; seekOffset 0 also stands for an absent offset
SeekOffset(seekOffset) == IF seekOffset = 0 THEN 15 ELSE seekOffset

\* media-session seekbackward, app.js 75-79
seekbackward(s, seekOffset) ==
  IF s.audio = NoId \/ ~isFinite(s.audios[s.audio].duration) THEN s
  ELSE setCurrentTime(s, MathMax(0, s.audios[s.audio].currentTime
                                       - SeekOffset(seekOffset)))

\* media-session seekforward, app.js 80-84
seekforward(s, seekOffset) ==
  IF s.audio = NoId \/ ~isFinite(s.audios[s.audio].duration) THEN s
  ELSE setCurrentTime(s, MathMin(s.audios[s.audio].duration,
                                 s.audios[s.audio].currentTime
                                   + SeekOffset(seekOffset)))

\* media-session seekto, app.js 85-88; given: details.seekTime is defined
seekto(s, given, seekTime) ==
  IF s.audio = NoId \/ ~isFinite(s.audios[s.audio].duration) \/ ~given THEN s
  ELSE setCurrentTime(s, MathMin(s.audios[s.audio].duration,
                                 MathMax(0, seekTime)))

\* variant: the old interval is never cleared
clearOldInterval_Never(s) == s

\* app.js 1045-1048
clearOldInterval(s) ==
  IF s.bfmNowPlayingInterval # NoId
  THEN [s EXCEPT !.intervals = {t \in @ : t.id # s.bfmNowPlayingInterval},
                 !.bfmNowPlayingInterval = NoId]
  ELSE s

setInterval(s, kind) ==
  [s EXCEPT !.intervals = @ \cup {[id |-> s.nextTimer, kind |-> kind]},
            !.nextTimer = @ + 1]

\* app.js 1051-1063
startOrStopBfm(s, name) ==
  IF name = BFM
  THEN LET s1 == fetch95bFMNowPlaying([s EXCEPT !.lastBfmTrackInfo = Null])
           s2 == setInterval(s1, "bfm")
       IN [s2 EXCEPT !.bfmNowPlayingInterval = s1.nextTimer,
                     !.refreshBtnShown = TRUE]
  ELSE [s EXCEPT !.lastBfmTrackInfo = Null, !.refreshBtnShown = FALSE]

\* variant: the old interval is cleared only when the poll is re-armed
loadStation_ClearsOnlyOnRearm(s, url, name, req) ==
  LET s1 == cleanupOldAudio([s EXCEPT !.loading = TRUE])
      s2 == createAudio(s1, url, name, req)
      s3 == attachAll(s2, <<"canplay", "error", "waiting", "playing", "ended">>)
      s4 == updateBulletinControlsState(
              [s3 EXCEPT !.currentStation =
                 [set |-> TRUE, url |-> url, name |-> name,
                  isBulletin |-> isBulletinUrl(url) \/ IncludesNews(name)]])
      s5 == attachAll(s4, <<"loadedmetadata", "durationchange", "timeupdate">>)
  IN startOrStopBfm(IF name = BFM THEN clearOldInterval(s5) ELSE s5, name)

\* req is the bulletin request the call resolves (0: not a bulletin request)
loadStation(s, url, name, req) ==
  LET s1 == cleanupOldAudio([s EXCEPT !.loading = TRUE])
      s2 == createAudio(s1, url, name, req)
      s3 == attachAll(s2, <<"canplay", "error", "waiting", "playing", "ended">>)
      s4 == updateBulletinControlsState(
              [s3 EXCEPT !.currentStation =
                 [set |-> TRUE, url |-> url, name |-> name,
                  isBulletin |-> isBulletinUrl(url) \/ IncludesNews(name)]])
      s5 == attachAll(s4, <<"loadedmetadata", "durationchange", "timeupdate">>)
  IN startOrStopBfm(clearOldInterval(s5), name)

\* ------------------------------------------------------- bulletin probing
\* cleanup of the previous test audio, app.js 390-394
cleanupTestAudio(s) ==
  IF s.currentTestAudio = NoId THEN s
  ELSE [s EXCEPT !.probes[s.currentTestAudio].paused = TRUE,
                 !.probes[s.currentTestAudio].src = Null,
                 !.currentTestAudio = NoId]

\* skew = 1: the zone clock passes an hour boundary between the reading taken
\* for the URL and the reading taken for the hour label.  A probe keeps what
\* its two handlers close over (type, name, attemptHoursBack, url, hour); src
\* is Null once its src was set to ''.  History fields: req is the
\* loadNewsBulletin call the probe belongs to, at the clock reading its URL
\* was made from, instant the instant of that reading, outcome the handler
\* that ran for it.
tryLoadBulletin(s, req, type, name, attemptHoursBack, skew) ==
  LET now == getNZDTTime(s)
      url == IF type = "rnz" THEN getRNZNewsURL(now, attemptHoursBack)
             ELSE getZBNewsURL(now, attemptHoursBack)
      s1 == IF skew = 1 THEN [s EXCEPT !.clock = NextHour(@), !.ticks = @ + 1]
            ELSE s
      hour == Pad2(SetHoursBack(getNZDTTime(s1), attemptHoursBack).hour)
      s2 == cleanupTestAudio(s1)
  IN [s2 EXCEPT
        !.probes = Append(@, [req |-> req, type |-> type, name |-> name,
                              attemptHoursBack |-> attemptHoursBack,
                              url |-> url, hour |-> hour, src |-> url,
                              paused |-> TRUE, listeners |-> {"canplay", "error"},
                              at |-> now, instant |-> s.clock,
                              outcome |-> "pending"]),
        !.currentTestAudio = Len(s2.probes) + 1]

loadNewsBulletin(s, req, type, name, skew) == tryLoadBulletin(s, req, type, name, 0, skew)

\* variant: the probe keeps its listeners after it resolved
probeCanplayHandler_KeepsListeners(s, p) ==
  LET pr == s.probes[p]
      s1 == [s EXCEPT !.newsTime[pr.type] = pr.hour \o <<":00", " bulletin">>,
                      !.loadedBulletinTimes[pr.type] = pr.hour,
                      !.probes[p].outcome = "canplay"]
      s2 == loadStation(s1, pr.url, pr.name \o <<" ">> \o pr.hour \o <<":00 News">>,
                        pr.req)
  IN [s2 EXCEPT !.nowPlaying = <<"Playing: ">> \o pr.name \o <<" ">> \o pr.hour
                                 \o <<":00 News">>,
                !.playPauseDisabled = FALSE,
                !.currentTestAudio = NoId]

\* canplayHandler of probe p, app.js 400-420
probeCanplayHandler(s, p) ==
  LET pr == s.probes[p]
      s1 == [s EXCEPT !.newsTime[pr.type] = pr.hour \o <<":00", " bulletin">>,
                      !.loadedBulletinTimes[pr.type] = pr.hour,
                      !.probes[p].outcome = "canplay"]
      s2 == loadStation(s1, pr.url, pr.name \o <<" ">> \o pr.hour \o <<":00 News">>,
                        pr.req)
  IN [s2 EXCEPT !.nowPlaying = <<"Playing: ">> \o pr.name \o <<" ">> \o pr.hour
                                 \o <<":00 News">>,
                !.playPauseDisabled = FALSE,
                !.probes[p].listeners = {},
                !.currentTestAudio = NoId]

\* variant: the failure notice is shown for every failed attempt
probeErrorHandler_NoticePerAttempt(s, p, skew) ==
  LET pr == s.probes[p]
      s1 == [s EXCEPT !.probes[p].listeners = {},
                      !.probes[p].paused = TRUE,
                      !.probes[p].src = Null,
                      !.probes[p].outcome = "error"]
  IN IF pr.attemptHoursBack = 0
     THEN showToast(tryLoadBulletin([s1 EXCEPT !.currentTestAudio = NoId],
                                    pr.req, pr.type, pr.name, 1, skew),
                    "News Bulletin Unavailable", 7000, NoRetry)
     ELSE LET s2 == loadStation([s1 EXCEPT !.currentTestAudio = NoId],
                                pr.url, pr.name \o <<" News">>, pr.req)
              s3 == [s2 EXCEPT !.nowPlaying = <<"Trying to load ">> \o pr.name
                                                \o <<" News...">>,
                               !.playPauseDisabled = FALSE]
          IN showToast(s3, "News Bulletin Unavailable", 7000, NoRetry)

\* variant: after the hoursBack=1 attempt an hoursBack=2 attempt is made
probeErrorHandler_ThirdAttempt(s, p, skew) ==
  LET pr == s.probes[p]
      s1 == [s EXCEPT !.probes[p].listeners = {},
                      !.probes[p].paused = TRUE,
                      !.probes[p].src = Null,
                      !.probes[p].outcome = "error"]
  IN IF pr.attemptHoursBack < 2
     THEN tryLoadBulletin([s1 EXCEPT !.currentTestAudio = NoId],
                          pr.req, pr.type, pr.name, pr.attemptHoursBack + 1, skew)
     ELSE LET s2 == loadStation([s1 EXCEPT !.currentTestAudio = NoId],
                                pr.url, pr.name \o <<" News">>, pr.req)
              s3 == [s2 EXCEPT !.nowPlaying = <<"Trying to load ">> \o pr.name
                                                \o <<" News...">>,
                               !.playPauseDisabled = FALSE]
          IN showToast(s3, "News Bulletin Unavailable", 7000, NoRetry)

\* errorHandler of probe p, app.js 422-453
probeErrorHandler(s, p, skew) ==
  LET pr == s.probes[p]
      s1 == [s EXCEPT !.probes[p].listeners = {},
                      !.probes[p].paused = TRUE,
                      !.probes[p].src = Null,
                      !.probes[p].outcome = "error"]
  IN IF pr.attemptHoursBack = 0
     THEN tryLoadBulletin([s1 EXCEPT !.currentTestAudio = NoId],
                          pr.req, pr.type, pr.name, 1, skew)
     ELSE LET s2 == loadStation([s1 EXCEPT !.currentTestAudio = NoId],
                                pr.url, pr.name \o <<" News">>, pr.req)
              s3 == [s2 EXCEPT !.nowPlaying = <<"Trying to load ">> \o pr.name
                                                \o <<" News...">>,
                               !.playPauseDisabled = FALSE]
          IN showToast(s3, "News Bulletin Unavailable", 7000, NoRetry)

\* ------------------------------------------- metadata fetch, after the await
Tracks == {<<"Artist A - Song A">>, <<"Artist B - Song B">>}

Includes95bFM(text) == \E i \in 1..Len(text) : text[i] = "95bFM"

\* the response was ok and the page was parsed; trackInfo is the first element
\* text that passes the filter, or Null.  app.js 1119-1142
fetchSucceeded(s, trackInfo) ==
  IF trackInfo # Null /\ trackInfo # s.lastBfmTrackInfo
  THEN IF s.currentStation.set /\ s.currentStation.name = BFM
       THEN [s EXCEPT !.nowPlaying = <<"Now Playing: ">> \o trackInfo,
                      !.lastBfmTrackInfo = trackInfo,
                      !.bfmMetadataFailures = 0]
       ELSE s
  ELSE s

\* the fetch timed out, failed or answered with a non-OK status.
\* app.js 1147-1181
fetchFailed(s) ==
  LET s1 == [s EXCEPT !.bfmMetadataFailures = @ + 1]
      s2 == IF s1.bfmMetadataFailures = 3
            THEN showToast(s1, "95bFM Metadata Unavailable", 8000, NoRetry)
            ELSE s1
  IN IF /\ s2.currentStation.set /\ s2.currentStation.name = BFM
        /\ s2.lastBfmTrackInfo = Null
        /\ ~Includes95bFM(s2.nowPlaying)
     THEN [s2 EXCEPT !.nowPlaying = <<"Now Playing: ", "95bFM">>]
     ELSE s2

\* ------------------------------------------------ playback event handlers
Listens(handle, event) ==
  \E i \in 1..Len(handle.listeners) : handle.listeners[i].event = event

\* app.js 935-942; `audio` is the global, the live handle
audioCanplayHandler(s) ==
  [s EXCEPT !.loading = FALSE, !.audios[s.audio].paused = FALSE,
            !.audios[s.audio].held = FALSE, !.playing = TRUE]

\* variant: the on-air indicator is left as it is
audioErrorHandler_KeepsOnAir(s, a) ==
  LET s1 == [s EXCEPT !.loading = FALSE,
                      !.nowPlaying = <<"Error loading ">> \o s.audios[a].name]
  IN showToast(s1, "Stream Error", 6000,
               [set |-> TRUE, url |-> s.audios[a].url,
                name |-> s.audios[a].name])

\* app.js 947-976; url and name are those of the load that made handle a
audioErrorHandler(s, a) ==
  LET s1 == [s EXCEPT !.loading = FALSE,
                      !.nowPlaying = <<"Error loading ">> \o s.audios[a].name]
      s2 == showToast(s1, "Stream Error", 6000,
                      [set |-> TRUE, url |-> s.audios[a].url,
                       name |-> s.audios[a].name])
  IN [s2 EXCEPT !.onAir = FALSE]

audioWaitingHandler(s) == [s EXCEPT !.loading = TRUE]

audioPlayingHandler(s) == [s EXCEPT !.loading = FALSE, !.onAir = TRUE]

audioEndedHandler(s) == [s EXCEPT !.onAir = FALSE, !.playing = FALSE]

\* metadataHandler and durationHandler, app.js 1020-1034
audioMetadataHandler(s) == updateBulletinControlsState(s)

\* timeUpdateHandler, app.js 1036-1040
audioTimeUpdateHandler(s) == syncScrubUI(s)

\* the durations the browser can report for a URL: a live stream has no end,
\* a bulletin file is empty or SeekMaxTime seconds long
MediaDurations(url) ==
  IF \E st \in Stations : st.url = url THEN {Infinity} ELSE {0, SeekMaxTime}

\* what the user agent and the user can pass to the seek handlers
SeekOffsets == {0, 30}
SeekTimes == {-5, 7, 50}
ScrubValues == {0, 7, 50}


\* ------------------------------------------------- play, pause and stop
\* click on the play/pause button, app.js 554-577
playPauseClick(s) ==
  IF s.audio = NoId THEN s
  ELSE IF s.audios[s.audio].paused
  THEN [s EXCEPT !.audios[s.audio].paused = FALSE,
                 !.audios[s.audio].held = FALSE, !.playing = TRUE,
                 !.onAir = TRUE]
  ELSE [s EXCEPT !.audios[s.audio].paused = TRUE,
                 !.audios[s.audio].held = TRUE, !.playing = FALSE,
                 !.onAir = FALSE]

\* the media session's play action, app.js 55-60
mediaSessionPlay(s) ==
  IF s.audio = NoId THEN s
  ELSE [s EXCEPT !.audios[s.audio].paused = FALSE, !.audios[s.audio].held = FALSE]

\* the media session's pause action, app.js 61-66
mediaSessionPause(s) ==
  IF s.audio = NoId THEN s
  ELSE [s EXCEPT !.audios[s.audio].paused = TRUE,
                 !.audios[s.audio].held = @ \/ ~s.audios[s.audio].paused]

\* the media session's stop action, app.js 67-73
mediaSessionStop(s) ==
  IF s.audio = NoId THEN s
  ELSE [s EXCEPT !.audios[s.audio].paused = TRUE,
                 !.audios[s.audio].held = @ \/ ~s.audios[s.audio].paused,
                 !.audios[s.audio].currentTime = 0]

\* ------------------------------------------------------------------ toasts
\* removeToast: marks the toast and schedules the removal 300 ms later
removeToast(s, i) == [s EXCEPT !.toasts[i].removals = @ + 1]

\* variant: the callback does not look at toast.parentNode
toastRemoval_NoGuard(s, i) ==
  LET s1 == [s EXCEPT !.toasts[i].removals = @ - 1]
      s2 == [s1 EXCEPT !.toasts[i].shown = FALSE, !.activeToasts = @ - 1]
  IN IF s2.toastQueue = <<>> THEN s2
     ELSE LET next == Head(s2.toastQueue)
          IN [s2 EXCEPT !.toastQueue = Tail(@),
                        !.toasts[next].shown = TRUE,
                        !.toasts[next].timer = s2.toasts[next].duration > 0,
                        !.activeToasts = @ + 1]

\* the callback removeToast scheduled, app.js 228-247
toastRemoval(s, i) ==
  LET s1 == [s EXCEPT !.toasts[i].removals = @ - 1]
  IN IF ~s1.toasts[i].shown THEN s1
     ELSE LET s2 == [s1 EXCEPT !.toasts[i].shown = FALSE, !.activeToasts = @ - 1]
          IN IF s2.toastQueue = <<>> THEN s2
             ELSE LET next == Head(s2.toastQueue)
                  IN [s2 EXCEPT !.toastQueue = Tail(@),
                                !.toasts[next].shown = TRUE,
                                !.toasts[next].timer = s2.toasts[next].duration > 0,
                                !.activeToasts = @ + 1]

\* --------------------------------------------------------- online status
\* container.children.length: the toasts in the toast container
Displayed(s) == {i \in 1..Len(s.toasts) : s.toasts[i].shown}

\* variant: playback goes on while offline
updateOnlineStatus_NoPause(s) ==
  IF s.online
  THEN LET s1 == [s EXCEPT !.statusOffline = FALSE]
       IN IF Displayed(s1) # {}
          THEN showToast(s1, "Back Online", 4000, NoRetry)
          ELSE s1
  ELSE showToast([s EXCEPT !.statusOffline = TRUE],
                 "No Internet Connection", 0, NoRetry)

\* the handler of the online and offline events, app.js 1185-1224
updateOnlineStatus(s) ==
  IF s.online
  THEN LET s1 == [s EXCEPT !.statusOffline = FALSE]
       IN IF Displayed(s1) # {}
          THEN showToast(s1, "Back Online", 4000, NoRetry)
          ELSE s1
  ELSE LET s1 == showToast([s EXCEPT !.statusOffline = TRUE],
                           "No Internet Connection", 0, NoRetry)
       IN IF s1.audio # NoId /\ ~s1.audios[s1.audio].paused
          THEN [s1 EXCEPT !.audios[s1.audio].paused = TRUE,
                          !.audios[s1.audio].held = TRUE]
          ELSE s1

\* ---------------------------------------------------------- service worker
\* A URL is its hostname, a sequence of tokens, and its pathname.  A response
\* is the URL it answers, response.ok, and n, the fetch event whose network
\* fetch produced it (0: fetched by cache.addAll at install).
OriginHost == <<"radiolive.example">>

STATIC_ASSETS ==
  {"/", "/index.html", "/app.js", "/style.css", "/manifest.json",
   "/apple-touch-icon.png", "/favicon.png"}

OFFLINE_PAGE == "/index.html"

\* cache.addAll(STATIC_ASSETS), sw.js 24-28
Precache ==
  {[url |-> [hostname |-> OriginHost, pathname |-> p], ok |-> TRUE, n |-> 0] :
     p \in STATIC_ASSETS}

streamHosts ==
  {"centova.geckohost.nz", "stream-ice.radionz.co.nz",
   "playerservices.streamtheworld.com", "podcast.radionz.co.nz",
   "weekondemand.newstalkzb.co.nz"}

\* streamHosts.some(host => url.hostname.includes(host))
isAudioStream(url) ==
  \E i \in 1..Len(url.hostname) : url.hostname[i] \in streamHosts

\* url.hostname.includes('api.allorigins.win')
isCorsProxy(url) ==
  \E i \in 1..Len(url.hostname) : url.hostname[i] = "api.allorigins.win"

\* the requests the pages and the worker's clients make
FetchRequests ==
  { [url |-> [hostname |-> OriginHost, pathname |-> "/"],
     destination |-> "document"],
    [url |-> [hostname |-> OriginHost, pathname |-> "/help.html"],
     destination |-> "document"],
    [url |-> [hostname |-> OriginHost, pathname |-> "/app.js"],
     destination |-> "script"],
    [url |-> [hostname |-> OriginHost, pathname |-> "/icon-512.png"],
     destination |-> "image"],
    [url |-> [hostname |-> <<"stream-ice.radionz.co.nz">>, pathname |-> "/national"],
     destination |-> "audio"],
    [url |-> [hostname |-> <<"stream-ice.radionz.co.nz">>, pathname |-> "/national"],
     destination |-> "document"],
    [url |-> [hostname |-> <<"podcast.radionz.co.nz">>, pathname |-> "/news.mp3"],
     destination |-> "audio"],
    [url |-> [hostname |-> <<"api.allorigins.win">>, pathname |-> "/get"],
     destination |-> ""],
    [url |-> [hostname |-> <<"eu.", "api.allorigins.win">>, pathname |-> "/get"],
     destination |-> "document"] }

NoResponse == [url |-> [hostname |-> <<>>, pathname |-> ""], ok |-> FALSE, n |-> -1]
NoAnswer == [from |-> "none", resp |-> NoResponse]
\* respondWith was given a promise that rejected or resolved to undefined
NetworkError == [from |-> "error", resp |-> NoResponse]

\* caches.match(request): the entry stored for the URL, if any
CacheMatch(c, url) == {r \in c : r.url = url}

\* cache.put(request, response) replaces the entry stored for the URL
CachePut(c, r) == {x \in c : x.url # r.url} \cup {r}

\* variant: the document strategy is chosen before the stream hosts are looked at
fetchHandler_DocumentFirst(request) ==
  LET route == IF request.destination = "document" THEN "networkFirst"
               ELSE IF isAudioStream(request.url) THEN "stream"
               ELSE IF isCorsProxy(request.url) THEN "proxy"
               ELSE "cacheFirst"
  IN [request |-> request, route |-> route,
      pc |-> IF route = "cacheFirst" THEN "match" ELSE "fetch",
      net |-> "none", answer |-> NoAnswer]

\* the fetch event handler, sw.js 140-165: the strategy the request is given
\* and the first thing the strategy waits for.  History field: net, how the
\* network answered this event.
fetchHandler(request) ==
  LET route == IF isAudioStream(request.url) THEN "stream"
               ELSE IF isCorsProxy(request.url) THEN "proxy"
               ELSE IF request.destination = "document" THEN "networkFirst"
               ELSE "cacheFirst"
  IN [request |-> request, route |-> route,
      pc |-> IF route = "cacheFirst" THEN "match" ELSE "fetch",
      net |-> "none", answer |-> NoAnswer]

\* if (response.ok) cache.put(...), in the two strategies, sw.js 89-92, 123-126
putsResponse(ev, r) == ev.route \in {"networkFirst", "cacheFirst"} /\ r.ok

\* variant: no look at the cache for the request, the offline page at once
networkFailed_OfflineOnly(ev) ==
  CASE ev.route = "networkFirst" -> [ev EXCEPT !.net = "failed", !.pc = "offline"]
    [] ev.route = "cacheFirst" /\ ev.request.destination = "document" ->
         [ev EXCEPT !.net = "failed", !.pc = "offline"]
    [] OTHER -> [ev EXCEPT !.net = "failed", !.pc = "done", !.answer = NetworkError]

\* fetch(request) rejected: the catch blocks, sw.js 94-97, 129-138, and the
\* bare fetch of the stream and proxy requests, sw.js 146, 152
networkFailed(ev) ==
  CASE ev.route = "networkFirst" -> [ev EXCEPT !.net = "failed", !.pc = "fallback"]
    [] ev.route = "cacheFirst" /\ ev.request.destination = "document" ->
         [ev EXCEPT !.net = "failed", !.pc = "offline"]
    [] OTHER -> [ev EXCEPT !.net = "failed", !.pc = "done", !.answer = NetworkError]

\* fetch(request) resolved with response r, sw.js 86-93, 120-128, 146, 152
networkAnswered(ev, r) ==
  [ev EXCEPT !.net = IF r.ok THEN "ok" ELSE "notok", !.pc = "done",
             !.answer = [from |-> "network", resp |-> r]]

\* await caches.match(...) resolved, sw.js 99-106, 112-115, 134
cacheAnswered(ev, c) ==
  LET hit == CacheMatch(c, ev.request.url)
      page == CacheMatch(c, [hostname |-> OriginHost, pathname |-> OFFLINE_PAGE])
      found(set) == [from |-> "cache", resp |-> CHOOSE r \in set : TRUE]
  IN CASE ev.pc = "match" ->
            IF hit # {} THEN [ev EXCEPT !.pc = "done", !.answer = found(hit)]
            ELSE [ev EXCEPT !.pc = "fetch"]
       [] ev.pc = "fallback" ->
            IF hit # {} THEN [ev EXCEPT !.pc = "done", !.answer = found(hit)]
            ELSE [ev EXCEPT !.pc = "offline"]
       [] ev.pc = "offline" ->
            [ev EXCEPT !.pc = "done",
                       !.answer = IF page # {} THEN found(page) ELSE NetworkError]

\* ---------------------------------------------------------------- teardown
\* the beforeunload handler, app.js 1231-1258
teardown(s) ==
  LET s1 == IF s.newsUpdateInterval # NoId
            THEN [s EXCEPT !.intervals = {t \in @ : t.id # s.newsUpdateInterval},
                           !.newsUpdateInterval = NoId]
            ELSE s
      s2 == cleanupOldAudio(clearOldInterval(s1))
      s3 == cleanupTestAudio(s2)
  IN [s3 EXCEPT !.tornDown = TRUE]

\* ----------------------------------------------------------- station order
\* A station button is its data-url; the station URLs are distinct.
HtmlOrder ==
  << <<"https://", "centova.geckohost.nz", "/stream">>,
     <<"https://", "stream-ice.radionz.co.nz", "/national">>,
     <<"https://", "playerservices.streamtheworld.com", "/live">> >>

\* a URL saved for a station button the page does not have
GoneUrl == <<"https://", "stream.example", "/gone">>

Range(seq) == {seq[i] : i \in 1..Len(seq)}

\* the sequences without repetition over a set of buttons
RECURSIVE Orders(_)
Orders(set) ==
  IF set = {} THEN {<<>>}
  ELSE UNION {{<<b>> \o o : o \in Orders(set \ {b})} : b \in set}

\* the sequences of at most n elements of a set
RECURSIVE ListsUpTo(_, _)
ListsUpTo(set, n) ==
  IF n = 0 THEN {<<>>}
  ELSE ListsUpTo(set, n - 1) \cup
       {<<x>> \o l : x \in set, l \in {m \in ListsUpTo(set, n - 1) : Len(m) = n - 1}}

\* JSON.stringify of an array of strings: a text of tokens, each string
\* between quote tokens, the strings separated by comma tokens
RECURSIVE JSONItems(_)
JSONItems(order) ==
  IF order = <<>> THEN <<>>
  ELSE <<"'">> \o Head(order) \o <<"'">> \o
       (IF Len(order) = 1 THEN <<>> ELSE <<",">> \o JSONItems(Tail(order)))

JSONStringify(order) == <<"[">> \o JSONItems(order) \o <<"]">>

\* position of the first quote token of text at or after i; 0 if there is none
RECURSIVE NextQuote(_, _)
NextQuote(text, i) ==
  IF i > Len(text) THEN 0
  ELSE IF text[i] = "'" THEN i ELSE NextQuote(text, i + 1)

\* the strings of a comma-separated list of quoted strings; error: not such a list
RECURSIVE ParseItems(_)
ParseItems(text) ==
  IF text = <<>> \/ Head(text) # "'" THEN [error |-> TRUE, value |-> <<>>]
  ELSE LET close == NextQuote(text, 2)
       IN IF close = 0 THEN [error |-> TRUE, value |-> <<>>]
          ELSE LET str == SubSeq(text, 2, close - 1)
                   rest == SubSeq(text, close + 1, Len(text))
               IN IF rest = <<>> THEN [error |-> FALSE, value |-> <<str>>]
                  ELSE IF Head(rest) # "," THEN [error |-> TRUE, value |-> <<>>]
                  ELSE LET more == ParseItems(Tail(rest))
                       IN [error |-> more.error, value |-> <<str>> \o more.value]

\* JSON.parse: an array of strings, another JSON value, or a SyntaxError
JSONParse(text) ==
  IF text = <<"{", "}">> THEN [kind |-> "object", value |-> <<>>]
  ELSE IF Len(text) < 2 \/ text[1] # "[" \/ text[Len(text)] # "]"
  THEN [kind |-> "error", value |-> <<>>]
  ELSE IF Len(text) = 2 THEN [kind |-> "array", value |-> <<>>]
  ELSE LET items == ParseItems(SubSeq(text, 2, Len(text) - 1))
       IN IF items.error THEN [kind |-> "error", value |-> <<>>]
          ELSE [kind |-> "array", value |-> items.value]

\* what the local storage may hold under the key when the page is opened:
\* nothing, a text that is not JSON, JSON that is not an array, or a list of
\* URLs written by an earlier visit (of an older or a newer page)
StoredValues ==
  {Null, <<"[", "'", "x">>, <<"{", "}">>} \cup
  {JSONStringify(l) : l \in ListsUpTo(Range(HtmlOrder) \cup {GoneUrl}, OrderMaxSaved)}
  \cup {JSONStringify(o) : o \in Orders(Range(HtmlOrder))}

\* stationsList.appendChild(btn): the button moves to the end of the list
appendChild(list, btn) == SelectSeq(list, LAMBDA b : b # btn) \o <<btn>>

\* saved.forEach, app.js 699-705: map is the sequence of the keys of the Map,
\* in insertion order
RECURSIVE restoreSaved(_, _, _)
restoreSaved(list, map, saved) ==
  IF saved = <<>> THEN [list |-> list, map |-> map]
  ELSE IF Head(saved) \in Range(map)
  THEN restoreSaved(appendChild(list, Head(saved)),
                    SelectSeq(map, LAMBDA k : k # Head(saved)), Tail(saved))
  ELSE restoreSaved(list, map, Tail(saved))

\* map.forEach((btn) => stationsList.appendChild(btn)), app.js 707
RECURSIVE appendRest(_, _)
appendRest(list, map) ==
  IF map = <<>> THEN list
  ELSE appendRest(appendChild(list, Head(map)), Tail(map))

\* variant: the buttons absent from the saved list are not appended again
restoreStationOrder_NoRest(s) ==
  LET text == IF s.stationOrderV1 = Null THEN <<"[", "]">> ELSE s.stationOrderV1
      parsed == JSONParse(text)
      saved == IF parsed.kind = "error" THEN <<>> ELSE parsed.value
  IN IF parsed.kind = "object" \/ saved = <<>> THEN s
     ELSE LET done == restoreSaved(s.stationsList, s.stationsList, saved)
          IN [s EXCEPT !.stationsList = done.list]

\* restoreStationOrder, app.js 686-708
restoreStationOrder(s) ==
  LET text == IF s.stationOrderV1 = Null THEN <<"[", "]">> ELSE s.stationOrderV1
      parsed == JSONParse(text)
      saved == IF parsed.kind = "error" THEN <<>> ELSE parsed.value
  IN IF parsed.kind = "object" \/ saved = <<>> THEN s
     ELSE LET done == restoreSaved(s.stationsList, s.stationsList, saved)
          IN [s EXCEPT !.stationsList = appendRest(done.list, done.map)]

\* saveStationOrder, app.js 710-720; throws: localStorage.setItem threw
saveStationOrder(s, throws) ==
  LET order == SelectSeq(s.stationsList, LAMBDA url : url # Null)
  IN IF throws THEN s ELSE [s EXCEPT !.stationOrderV1 = JSONStringify(order)]

\* finishDrag, app.js 867-895: the dragged button i is put where the
\* placeholder is, before the button at position j of the others or at the
\* end, and the order is saved
finishDrag(s, i, j, throws) ==
  LET btn == s.stationsList[i]
      others == SelectSeq(s.stationsList, LAMBDA b : b # btn)
      moved == SubSeq(others, 1, j - 1) \o <<btn>> \o SubSeq(others, j, Len(others))
  IN saveStationOrder([s EXCEPT !.stationsList = moved], throws)

\* the page is loaded again after it was unloaded: the script starts from
\* its declarations, the local storage is kept
reload(s) ==
  [s EXCEPT
     !.probes = <<>>, !.currentTestAudio = NoId, !.nreq = 0,
     !.loadedBulletinTimes = [type \in Types |-> Null],
     !.newsTime = [type \in Types |-> Null],
     !.nowPlaying = <<"Select a station">>, !.playPauseDisabled = TRUE,
     !.audios = <<>>, !.audio = NoId, !.currentAudioListeners = <<>>,
     !.currentStation = [set |-> FALSE, url |-> Null, name |-> Null,
                         isBulletin |-> FALSE],
     !.loading = FALSE, !.playing = FALSE, !.onAir = FALSE,
     !.controlsVisible = FALSE, !.intervals = {}, !.nextTimer = 1,
     !.newsUpdateInterval = NoId, !.bfmNowPlayingInterval = NoId,
     !.isPlayerInitialized = FALSE, !.lastBfmTrackInfo = Null,
     !.bfmMetadataFailures = 0, !.pendingFetches = 0, !.nfetch = 0,
     !.refreshBtnShown = FALSE, !.toasts = <<>>, !.toastQueue = <<>>,
     !.activeToasts = 0, !.consecFails = 0, !.warningsInRun = 0,
     !.isScrubbing = FALSE, !.scrubSlider = [value |-> 0, max |-> 100],
     !.registrations = 0, !.initCalls = 0, !.statusOffline = FALSE,
     !.stationsList = s.stationsHtml, !.tornDown = FALSE]

\* ------------------------------------------------------- initializePlayer
\* variant: no guard against a second initialisation
initializePlayer_NoGuard(s) ==
  LET s1 == updateNewsButtonTimes(
              restoreStationOrder([s EXCEPT !.isPlayerInitialized = TRUE]))
      s2 == IF s1.newsUpdateInterval # NoId
            THEN [s1 EXCEPT !.intervals = {t \in @ : t.id # s1.newsUpdateInterval}]
            ELSE s1
      s3 == setInterval(s2, "news")
  IN [s3 EXCEPT !.newsUpdateInterval = s2.nextTimer,
                !.registrations = @ + 1]

\* app.js 463-683: the guard, the labels, the ClockRefresh timer and the
\* registration of the button handlers
initializePlayer(s) ==
  IF s.isPlayerInitialized THEN s
  ELSE LET s1 == updateNewsButtonTimes(
                   restoreStationOrder([s EXCEPT !.isPlayerInitialized = TRUE]))
           s2 == IF s1.newsUpdateInterval # NoId
                 THEN [s1 EXCEPT !.intervals =
                                    {t \in @ : t.id # s1.newsUpdateInterval}]
                 ELSE s1
           s3 == setInterval(s2, "news")
       IN [s3 EXCEPT !.newsUpdateInterval = s2.nextTimer,
                     !.registrations = @ + 1]

\* -------------------------------------------------------------------- Init
\* the service worker was registered and is being installed, sw.js 20
WorkerAsRegistered ==
  swState = "installing" /\ cache = {} /\ swEvents = <<>> /\ swPuts = {}

\* the state of the page before the window load handler has run: the globals
\* as declared (app.js 2-18), no timer, no handler, the labels not yet written
PageAsDeclared ==
  /\ ticks = 0
  /\ probes = <<>> /\ currentTestAudio = NoId /\ nreq = 0
  /\ loadedBulletinTimes = [type \in Types |-> Null]
  /\ newsTime = [type \in Types |-> Null]
  /\ nowPlaying = <<"Select a station">> /\ playPauseDisabled = TRUE
  /\ audios = <<>> /\ audio = NoId
  /\ currentAudioListeners = <<>>
  /\ currentStation = [set |-> FALSE, url |-> Null, name |-> Null,
                       isBulletin |-> FALSE]
  /\ loading = FALSE /\ playing = FALSE /\ onAir = FALSE
  /\ controlsVisible = FALSE
  /\ intervals = {} /\ nextTimer = 1
  /\ newsUpdateInterval = NoId /\ bfmNowPlayingInterval = NoId
  /\ isPlayerInitialized = FALSE
  /\ lastBfmTrackInfo = Null /\ bfmMetadataFailures = 0
  /\ pendingFetches = 0 /\ nfetch = 0 /\ refreshBtnShown = FALSE
  /\ toasts = <<>> /\ toastQueue = <<>> /\ activeToasts = 0
  /\ consecFails = 0 /\ warningsInRun = 0
  /\ isScrubbing = FALSE /\ scrubSlider = [value |-> 0, max |-> 100]
  /\ registrations = 0 /\ initCalls = 0
  /\ online = TRUE /\ statusOffline = FALSE
  /\ stationsList = stationsHtml
  /\ tornDown = FALSE
  /\ WorkerAsRegistered

\* the page is opened at the start instant, in New Zealand
InitPage ==
  /\ clock = StartClock /\ localZone = "Pacific/Auckland"
  /\ stationsHtml = HtmlOrder /\ stationOrderV1 = Null
  /\ PageAsDeclared

\* the page is opened at any of the sample instants, in any of the zones
InitAnyTime ==
  /\ clock \in SampleInstants /\ localZone \in LocalZones
  /\ stationsHtml = HtmlOrder /\ stationOrderV1 = Null
  /\ PageAsDeclared

\* the state after the window load handler: initializePlayer has armed the
\* ClockRefresh timer and rendered the labels, the browser is online
Init ==
  /\ clock = StartClock /\ ticks = 0 /\ localZone = "Pacific/Auckland"
  /\ probes = <<>> /\ currentTestAudio = NoId /\ nreq = 0
  /\ loadedBulletinTimes = [type \in Types |-> Null]
  /\ newsTime = [type \in Types |-> <<"2", "3", ":00", " bulletin">>]
  /\ nowPlaying = <<"Select a station">> /\ playPauseDisabled = TRUE
  /\ audios = <<>> /\ audio = NoId
  /\ currentAudioListeners = <<>>
  /\ currentStation = [set |-> FALSE, url |-> Null, name |-> Null,
                       isBulletin |-> FALSE]
  /\ loading = FALSE /\ playing = FALSE /\ onAir = FALSE
  /\ controlsVisible = FALSE
  /\ intervals = {[id |-> 1, kind |-> "news"]} /\ nextTimer = 2
  /\ newsUpdateInterval = 1 /\ bfmNowPlayingInterval = NoId
  /\ isPlayerInitialized = TRUE
  /\ lastBfmTrackInfo = Null /\ bfmMetadataFailures = 0
  /\ pendingFetches = 0 /\ nfetch = 0 /\ refreshBtnShown = FALSE
  /\ toasts = <<>> /\ toastQueue = <<>> /\ activeToasts = 0
  /\ consecFails = 0 /\ warningsInRun = 0
  /\ isScrubbing = FALSE /\ scrubSlider = [value |-> 0, max |-> 100]
  /\ registrations = 1 /\ initCalls = 1
  /\ online = TRUE /\ statusOffline = FALSE
  /\ stationsHtml = HtmlOrder /\ stationsList = HtmlOrder
  /\ stationOrderV1 = Null
  /\ tornDown = FALSE
  /\ WorkerAsRegistered

Step(s) == ~tornDown /\ Becomes(s)

\* ----------------------------------------------------------------- actions
\* the zone clock passes an hour boundary
Tick == Step([State EXCEPT !.clock = NextHour(@), !.ticks = @ + 1])

\* a call of initializePlayer: the window load handler, or any later call
InitializePlayer ==
  Step([initializePlayer(State) EXCEPT !.initCalls = @ + 1])

\* the ClockRefresh interval fires
NewsTimerFires ==
  /\ \E t \in intervals : t.kind = "news"
  /\ Step(updateNewsButtonTimes(State))

\* variant: the markers are not reset
ClickStation_KeepsMarkers ==
  \E st \in Stations :
    LET s1 == updateNewsButtonTimes(State)
        s2 == loadStation(s1, st.url, st.name, 0)
    IN /\ registrations > 0
       /\ Step([s2 EXCEPT !.nowPlaying = <<"Now Playing: ">> \o st.name,
                          !.playPauseDisabled = FALSE])

\* click on a station button, app.js 503-528
ClickStation ==
  \E st \in Stations :
    LET s1 == updateNewsButtonTimes(
                [State EXCEPT !.loadedBulletinTimes = [type \in Types |-> Null]])
        s2 == loadStation(s1, st.url, st.name, 0)
    IN /\ registrations > 0
       /\ Step([s2 EXCEPT !.nowPlaying = <<"Now Playing: ">> \o st.name,
                          !.playPauseDisabled = FALSE])

\* click on a news button, app.js 539-550
ClickNews ==
  \E type \in Types, skew \in {0, 1} :
    registrations > 0 /\
    Step(loadNewsBulletin([State EXCEPT !.nreq = @ + 1], nreq + 1, type,
                          BulletinName(type), skew))

\* a probe reports canplay: only while it still loads its URL
ProbeCanplay ==
  \E p \in 1..Len(probes) :
    /\ "canplay" \in probes[p].listeners
    /\ probes[p].src # Null
    /\ Step(probeCanplayHandler(State, p))

\* a probe reports error: its URL failed to load, or its src was set to ''
ProbeError ==
  \E p \in 1..Len(probes) :
    /\ "error" \in probes[p].listeners
    /\ \E skew \in {0, 1} :
         /\ (probes[p].attemptHoursBack = 1 => skew = 0)
         /\ Step(probeErrorHandler(State, p, skew))

AudioCanplay ==
  \E a \in 1..Len(audios) :
    /\ Listens(audios[a], "canplay")
    /\ Step(audioCanplayHandler(State))

AudioError ==
  \E a \in 1..Len(audios) :
    /\ Listens(audios[a], "error")
    /\ Step(audioErrorHandler(State, a))

AudioWaiting ==
  \E a \in 1..Len(audios) :
    /\ Listens(audios[a], "waiting")
    /\ Step(audioWaitingHandler(State))

AudioPlaying ==
  \E a \in 1..Len(audios) :
    /\ Listens(audios[a], "playing")
    /\ ~audios[a].paused
    /\ Step(audioPlayingHandler(State))

\* playback reached the end: the browser pauses the handle and reports ended
AudioEnded ==
  \E a \in 1..Len(audios) :
    /\ Listens(audios[a], "ended")
    /\ ~audios[a].paused
    /\ Step(audioEndedHandler([State EXCEPT !.audios[a].paused = TRUE]))

\* The browser learns or revises the duration of the media and the range it
\* can seek in, and reports durationchange; a position past the new end is
\* moved to the end.
AudioDurationChange ==
  \E a \in 1..Len(audios) :
    /\ Listens(audios[a], "durationchange")
    /\ \E d \in MediaDurations(audios[a].url) \ {audios[a].duration},
          range \in BOOLEAN :
         Step(audioMetadataHandler(
                [State EXCEPT !.audios[a].duration = d,
                              !.audios[a].seekable = range,
                              !.audios[a].currentTime =
                                 IF isFinite(d) THEN MathMin(@, d) ELSE @]))

\* loadedmetadata is reported once, after the duration is known
AudioLoadedMetadata ==
  \E a \in 1..Len(audios) :
    /\ Listens(audios[a], "loadedmetadata")
    /\ audios[a].duration # NaN /\ ~audios[a].metadata
    /\ Step(audioMetadataHandler([State EXCEPT !.audios[a].metadata = TRUE]))

\* playback advances by PlayStep, not past the end, and timeupdate is reported
AudioTimeUpdate ==
  \E a \in 1..Len(audios) :
    /\ Listens(audios[a], "timeupdate")
    /\ ~audios[a].paused /\ audios[a].duration # NaN
    /\ audios[a].currentTime < SeekMaxTime
    /\ LET end == IF isFinite(audios[a].duration) THEN audios[a].duration
                  ELSE SeekMaxTime
       IN /\ audios[a].currentTime < end
          /\ Step(audioTimeUpdateHandler(
                    [State EXCEPT !.audios[a].currentTime =
                                     MathMin(end, @ + PlayStep)]))

\* The range the browser can seek in changes while the media loads (more of it
\* is buffered, the connection is lost): audio.seekable is evaluated when it
\* is read and no event reports its changes.
SeekableChanges ==
  /\ audio # NoId /\ audios[audio].duration # NaN
  /\ Step([State EXCEPT !.audios[audio].seekable = ~@])

\* the skip buttons and the slider take input only while they are enabled
SkipBack == controlsVisible /\ Step(skipBack(State))

SkipForward == controlsVisible /\ Step(skipForward(State))

ScrubInput ==
  /\ controlsVisible
  /\ \E value \in ScrubValues : Step(scrubInput(State, value))

ScrubPointerDown == controlsVisible /\ Step(scrubPointerDown(State))

\* change or pointerup: the drag ends
ScrubRelease == controlsVisible /\ isScrubbing /\ Step(scrubRelease(State))

\* media keys, headset buttons and the lock screen
MediaSeekBackward == \E seekOffset \in SeekOffsets : Step(seekbackward(State, seekOffset))

MediaSeekForward == \E seekOffset \in SeekOffsets : Step(seekforward(State, seekOffset))

MediaSeekTo ==
  \E given \in BOOLEAN, seekTime \in SeekTimes :
    Step(seekto(State, given, seekTime))

\* a MetadataPoll interval fires
BfmTimerFires ==
  /\ \E t \in intervals : t.kind = "bfm"
  /\ Step(fetch95bFMNowPlaying(State))

\* click on the metadata refresh button, app.js 497-499
ClickRefresh ==
  /\ refreshBtnShown /\ registrations > 0
  /\ Step(fetch95bFMNowPlaying(State))

FetchSucceeds ==
  /\ pendingFetches > 0
  /\ \E trackInfo \in Tracks \cup {Null} :
       Step([fetchSucceeded(State, trackInfo) EXCEPT
               !.pendingFetches = @ - 1, !.consecFails = 0, !.warningsInRun = 0])

FetchFails ==
  /\ pendingFetches > 0
  /\ LET s == fetchFailed(State)
     IN Step([s EXCEPT !.pendingFetches = @ - 1, !.consecFails = @ + 1,
                       !.warningsInRun = @ + (Len(s.toasts) - Len(toasts))])

\* the auto-remove timer of a displayed toast fires
ToastExpires ==
  \E i \in 1..Len(toasts) :
    /\ toasts[i].timer
    /\ Step(removeToast([State EXCEPT !.toasts[i].timer = FALSE], i))

\* click on the Retry button of a displayed toast, app.js 158-161
ToastRetry ==
  \E i \in 1..Len(toasts) :
    /\ toasts[i].shown /\ toasts[i].retry.set
    /\ toasts[i].removals = 0
    /\ Step(removeToast(loadStation(State, toasts[i].retry.url,
                                    toasts[i].retry.name, 0), i))

\* the removal scheduled by removeToast runs
ToastRemoved ==
  \E i \in 1..Len(toasts) :
    /\ toasts[i].removals > 0
    /\ Step(toastRemoval(State, i))

\* a displayed toast is swiped past the threshold (pointerup), app.js 196-208
ToastSwipe ==
  \E i \in 1..Len(toasts) :
    /\ toasts[i].shown
    /\ Step(removeToast(State, i))


\* click on the play/pause button, which is disabled until a station is chosen
ClickPlayPause ==
  /\ ~playPauseDisabled /\ registrations > 0
  /\ Step(playPauseClick(State))

\* media keys, headset buttons and the lock screen: play, pause, stop
MediaPlay == Step(mediaSessionPlay(State))

MediaPause == Step(mediaSessionPause(State))

MediaStop == Step(mediaSessionStop(State))

\* the browser loses its connection and reports offline
GoOffline == online /\ Step(updateOnlineStatus([State EXCEPT !.online = FALSE]))

\* the connection is back and the browser reports online
GoOnline == ~online /\ Step(updateOnlineStatus([State EXCEPT !.online = TRUE]))

\* ------------------------------------------------- service worker events
\* the install event, sw.js 20-38: cache.addAll stores all assets or none
SwInstall ==
  /\ swState = "installing"
  /\ \E stored \in BOOLEAN :
       /\ swState' = IF stored THEN "installed" ELSE "redundant"
       /\ cache' = IF stored THEN Precache ELSE cache
  /\ UNCHANGED <<appVars, swEvents, swPuts>>

\* the activate event, sw.js 41-63: only caches of other versions are deleted
SwActivate ==
  /\ swState = "installed"
  /\ swState' = "activated"
  /\ UNCHANGED <<appVars, cache, swEvents, swPuts>>

\* a fetch event is dispatched to the active worker
SwFetch ==
  /\ swState = "activated"
  /\ \E request \in FetchRequests :
       swEvents' = Append(swEvents, fetchHandler(request))
  /\ UNCHANGED <<appVars, swState, cache, swPuts>>

\* the network answers the fetch of event e, or fails
SwNetworkReplies ==
  \E e \in 1..Len(swEvents) :
    /\ swEvents[e].pc = "fetch"
    /\ \/ /\ swEvents' = [swEvents EXCEPT ![e] = networkFailed(@)]
          /\ swPuts' = swPuts
       \/ \E ok \in BOOLEAN :
            LET r == [url |-> swEvents[e].request.url, ok |-> ok, n |-> e]
            IN /\ swEvents' = [swEvents EXCEPT ![e] = networkAnswered(@, r)]
               /\ swPuts' = IF putsResponse(swEvents[e], r) THEN swPuts \cup {r}
                            ELSE swPuts
    /\ UNCHANGED <<appVars, swState, cache>>

\* the cache answers the match event e waits for
SwCacheReplies ==
  \E e \in 1..Len(swEvents) :
    /\ swEvents[e].pc \in {"match", "fallback", "offline"}
    /\ swEvents' = [swEvents EXCEPT ![e] = cacheAnswered(@, cache)]
    /\ UNCHANGED <<appVars, swState, cache, swPuts>>

\* a cache.put started by a strategy completes; it was not awaited
SwPutDone ==
  \E r \in swPuts :
    /\ cache' = CachePut(cache, r)
    /\ swPuts' = swPuts \ {r}
    /\ UNCHANGED <<appVars, swState, swEvents>>

\* a station button is dragged to another place and dropped
DragEnd ==
  \E i \in 1..Len(stationsList), j \in 1..Len(stationsList), throws \in BOOLEAN :
    /\ registrations > 0
    /\ Step(finishDrag(State, i, j, throws))

\* the page that was unloaded is opened again
Reload == tornDown /\ Becomes(reload(State))

Teardown == Step(teardown(State)) /\ tornDown'

\* ---------------------------------------------------------- specifications
\* Each specification runs the handlers of one concern, with its own bounds.
\* A handler that always counts a step against a bound is not run once the
\* bound is reached; Within then bounds what the other handlers add.

\* bulletin requests, their probes and the loads they end in; the zone clock
\* advances between the two readings of an attempt (skew)
NextProbe ==
  /\ \/ (nreq < ProbeMaxRequests /\ ClickNews)
     \/ ProbeCanplay \/ ProbeError \/ Teardown
  /\ Within(ProbeMaxRequests, ProbeMaxLoads, ProbeMaxTicks, 0, ProbeMaxToasts)'

SpecProbe == Init /\ [][NextProbe]_vars

\* the playback session: loads from every path and the audio events
NextPlayback ==
  /\ \/ (Len(audios) < PlaybackMaxLoads /\ ClickStation)
     \/ (nreq < PlaybackMaxRequests /\ ClickNews)
     \/ ProbeCanplay \/ ProbeError
     \/ AudioCanplay \/ AudioError \/ AudioWaiting \/ AudioPlaying
     \/ AudioEnded \/ ToastRetry \/ Teardown
  /\ Within(PlaybackMaxRequests, PlaybackMaxLoads, 0, 0, PlaybackMaxToasts)'

SpecPlayback == Init /\ [][NextPlayback]_vars

\* the metadata poll timer: loads from every path and the poll interval
NextPoll ==
  /\ \/ (Len(audios) < PollMaxLoads /\ ClickStation)
     \/ (nreq < PollMaxRequests /\ ClickNews)
     \/ ProbeCanplay \/ ProbeError
     \/ BfmTimerFires \/ Teardown
  /\ Within(PollMaxRequests, PollMaxLoads, 0, PollMaxFetches, 1)'

SpecPoll == Init /\ [][NextPoll]_vars

\* the metadata fetches of a station X session and their outcomes
NextMeta ==
  /\ \/ (Len(audios) < MetaMaxLoads /\ ClickStation)
     \/ BfmTimerFires \/ ClickRefresh
     \/ FetchSucceeds \/ FetchFails \/ Teardown
  /\ Within(0, MetaMaxLoads, 0, MetaMaxFetches, 1)'

SpecMeta == Init /\ [][NextMeta]_vars

\* the bulletin labels: the zone clock advances, the ClockRefresh timer
\* fires, stations and bulletins are loaded
NextLabels ==
  /\ \/ (ticks < LabelsMaxTicks /\ Tick)
     \/ NewsTimerFires
     \/ (Len(audios) < LabelsMaxLoads /\ ClickStation)
     \/ (nreq < LabelsMaxRequests /\ ClickNews)
     \/ ProbeCanplay \/ ProbeError \/ Teardown
  /\ Within(LabelsMaxRequests, LabelsMaxLoads, LabelsMaxTicks, 0, 1)'

SpecLabels == Init /\ [][NextLabels]_vars

\* the start of the page: initializePlayer is called, once or again, while
\* the zone clock advances, the ClockRefresh timer fires and stations are loaded
NextStart ==
  /\ \/ (initCalls < StartMaxCalls /\ InitializePlayer)
     \/ (ticks < StartMaxTicks /\ Tick)
     \/ NewsTimerFires
     \/ (Len(audios) < StartMaxLoads /\ ClickStation)
     \/ Teardown
  /\ Within(0, StartMaxLoads, StartMaxTicks, 0, 0)'

SpecStart == InitPage /\ [][NextStart]_vars

\* the clock and the resolver, applied at every sample instant in every zone:
\* the page is initialised, a bulletin is requested, its probes fail
NextResolve ==
  /\ \/ (initCalls < 1 /\ InitializePlayer)
     \/ (nreq < ResolveMaxRequests /\ ClickNews)
     \/ ProbeError \/ Teardown
  /\ Within(ResolveMaxRequests, ResolveMaxLoads, 0, 0, 1)'
  /\ initCalls' <= 1

SpecResolve == InitAnyTime /\ [][NextResolve]_vars

\* seeking: a bulletin is loaded, the browser reports its duration and the
\* range it can seek in, and the user seeks with the page controls and the
\* media keys
NextSeek ==
  /\ \/ (nreq < SeekMaxRequests /\ ClickNews)
     \/ ProbeCanplay
     \/ AudioDurationChange \/ AudioLoadedMetadata
     \/ SeekableChanges \/ SkipBack \/ SkipForward \/ ScrubInput
     \/ ScrubPointerDown \/ ScrubRelease \/ MediaSeekBackward
     \/ MediaSeekForward \/ MediaSeekTo \/ Teardown
  /\ Within(SeekMaxRequests, SeekMaxLoads, 0, 0, 0)'

SpecSeek == Init /\ [][NextSeek]_vars

\* the bulletin controls: stations and bulletins are loaded in any order and
\* the browser reports durations and seekable ranges
NextControls ==
  /\ \/ (Len(audios) < ControlsMaxLoads /\ ClickStation)
     \/ (nreq < ControlsMaxRequests /\ ClickNews)
     \/ ProbeCanplay
     \/ AudioDurationChange \/ AudioLoadedMetadata
     \/ SeekableChanges \/ Teardown
  /\ Within(ControlsMaxRequests, ControlsMaxLoads, 0, 0, 0)'

SpecControls == Init /\ [][NextControls]_vars

\* connectivity: a station plays, the connection is lost and comes back, the
\* notices expire or are swiped away
NextOnline ==
  /\ \/ (Len(audios) < OnlineMaxLoads /\ ClickStation)
     \/ AudioCanplay \/ AudioEnded
     \/ (Len(toasts) < OnlineMaxToasts /\ GoOffline)
     \/ GoOnline
     \/ ToastSwipe \/ ToastExpires \/ ToastRemoved \/ Teardown
  /\ Within(0, OnlineMaxLoads, 0, 0, OnlineMaxToasts)'
  /\ PendingWithin(OnlineMaxPending)'

SpecOnline == Init /\ [][NextOnline]_vars

\* the toasts: the first station is clicked and its sessions fail, which emits
\* notices; the notices expire, are swiped away, and their retry action, which
\* loads the station again, is clicked
NextToast ==
  /\ \/ (Len(audios) = 0 /\ ClickStation)
     \/ (Len(toasts) < ToastMaxToasts /\ AudioError)
     \/ (Len(audios) < ToastMaxLoads /\ ToastRetry)
     \/ ToastSwipe \/ ToastExpires \/ ToastRemoved
  /\ Within(0, ToastMaxLoads, 0, 0, ToastMaxToasts)'
  /\ PendingRemovals(toasts', Len(toasts')) <= ToastMaxPending

SpecToast == Init /\ [][NextToast]_vars

\* the service worker: its installation and the fetch events of its clients
NextWorker ==
  \/ SwInstall \/ SwActivate
  \/ (Len(swEvents) < WorkerMaxEvents /\ SwFetch)
  \/ SwNetworkReplies \/ SwCacheReplies \/ SwPutDone

SpecWorker == Init /\ [][NextWorker]_vars

\* the station order: the page is opened with something in the local storage,
\* the buttons are dragged, the page is left and opened again
InitOrder ==
  /\ clock = StartClock /\ localZone = "Pacific/Auckland"
  /\ stationsHtml \in {HtmlOrder, SubSeq(HtmlOrder, 1, 2)}
  /\ stationOrderV1 \in StoredValues
  /\ PageAsDeclared

NextOrder ==
  \/ (initCalls < OrderMaxCalls /\ InitializePlayer)
  \/ DragEnd \/ Teardown \/ Reload

SpecOrder == InitOrder /\ [][NextOrder]_vars

\* bulletin requests on a page that stays open, every probe reporting in the
\* end: the media element of a probe fires canplay when its URL loads and
\* error when it does not or when its src is emptied; the zone clock does not
\* pass an hour boundary
ProbeReports ==
  /\ ProbeCanplay \/ ProbeError
  /\ Within(BulletinMaxRequests, BulletinMaxRequests, 0, 0,
            BulletinMaxRequests)'

NextBulletin ==
  \/ /\ nreq < BulletinMaxRequests /\ ClickNews
     /\ Within(BulletinMaxRequests, 0, 0, 0, 0)'
  \/ ProbeReports

\* A report is enabled exactly when a probe still has its listeners: its
\* error handler can always run.  ReportIsDue is enabled in the same states
\* and is a step of no handler (nreq is never negative); it is there so that
\* the enabling of the fair action is found without running the handlers.
ReportIsDue ==
  /\ \E p \in 1..Len(probes) : probes[p].listeners # {}
  /\ Becomes([State EXCEPT !.nreq = -1])

\* the media element of every probe delivers canplay or error in the end
SpecBulletin ==
  Init /\ [][NextBulletin]_vars /\ WF_vars(ReportIsDue \/ ProbeReports)


\* the on-air indicator: stations are loaded and play, the user and the media
\* keys pause and resume, the connection is lost, the stream fails or ends
NextOnAir ==
  /\ \/ (Len(audios) < OnAirMaxLoads /\ ClickStation)
     \/ AudioCanplay \/ AudioPlaying \/ AudioEnded
     \/ (Len(toasts) < OnAirMaxToasts /\ AudioError)
     \/ ClickPlayPause \/ MediaPlay \/ MediaPause \/ MediaStop
     \/ (Len(toasts) < OnAirMaxToasts /\ GoOffline)
     \/ GoOnline \/ Teardown
  /\ Within(0, OnAirMaxLoads, 0, 0, OnAirMaxToasts)'

SpecOnAir == Init /\ [][NextOnAir]_vars


\* the scrub slider: bulletins are loaded and play, the browser reports
\* durations and time progress, the user drags the slider
NextScrub ==
  /\ \/ (nreq < ScrubMaxRequests /\ ClickNews)
     \/ ProbeCanplay
     \/ (Len(audios) < ScrubMaxLoads /\ ClickStation)
     \/ AudioCanplay \/ AudioDurationChange \/ AudioTimeUpdate
     \/ ScrubInput \/ ScrubPointerDown \/ ScrubRelease \/ Teardown
  /\ Within(ScrubMaxRequests, ScrubMaxLoads, 0, 0, 0)'

SpecScrub == Init /\ [][NextScrub]_vars


\* the retry action: a station fails and its notice offers Retry, a bulletin
\* is requested and loaded, the Retry button is clicked
NextRetry ==
  /\ \/ (Len(audios) = 0 /\ ClickStation)
     \/ (Len(toasts) = 0 /\ AudioError)
     \/ (nreq = 0 /\ ClickNews)
     \/ ProbeCanplay \/ ProbeError
     \/ (Len(audios) < RetryMaxLoads /\ ToastRetry)
     \/ ToastExpires \/ ToastRemoved \/ Teardown
  /\ Within(1, RetryMaxLoads, 0, 0, 2)'

SpecRetry == Init /\ [][NextRetry]_vars


\* a selection while a probe is in flight: a bulletin is requested on the
\* page as it was opened, before any station was chosen; every station chosen
\* in the run is therefore chosen after the request
NextSelect ==
  /\ \/ (nreq < SelectMaxRequests /\ Len(audios) = 0 /\ ClickNews)
     \/ (Len(audios) < SelectMaxLoads /\ ClickStation)
     \/ ProbeCanplay \/ ProbeError \/ Teardown
  /\ Within(SelectMaxRequests, SelectMaxLoads, 0, 0, 1)'

SpecSelect == Init /\ [][NextSelect]_vars


\* the toast queue when nobody dismisses a toast: a station is chosen and its
\* stream fails, the connection is lost and comes back, which emits notices,
\* and the timers of the toasts fire
NextQueue ==
  /\ \/ (Len(audios) = 0 /\ ClickStation)
     \/ (Len(toasts) < QueueMaxToasts /\ AudioError)
     \/ (Len(toasts) < QueueMaxToasts /\ GoOffline)
     \/ (Len(toasts) < QueueMaxToasts /\ GoOnline)
     \/ ToastExpires \/ ToastRemoved
  /\ Within(0, 1, 0, 0, QueueMaxToasts)'

SpecQueue == Init /\ [][NextQueue]_vars

\* ================================================================== claims
ProbeIds == 1..Len(probes)
AudioIds == 1..Len(audios)

\* a probe handle that was created, still has its canplay/error listeners
\* attached and has not been released (its src was not set to '')
Outstanding(p) == probes[p].listeners # {} /\ probes[p].src # Null

\* a probe that tryLoadBulletin released while it was unresolved
Superseded(p) == probes[p].listeners # {} /\ probes[p].src = Null

\* the loads that resolved bulletin request r
LoadsOf(r) == {a \in AudioIds : audios[a].req = r}

\* C1: in every reachable state at most one probe handle is outstanding.
C1_AtMostOneProbeOutstanding ==
  Cardinality({p \in ProbeIds : Outstanding(p)}) <= 1

\* C2: an event delivered to a superseded probe (its handler runs, so its
\* listeners are gone afterwards) changes no state: no loadStation call, no
\* marker set, currentTestAudio not cleared, no further probe started.
C2_SupersededProbeIsInert ==
  [][\A p \in ProbeIds :
       (Superseded(p) /\ probes'[p].listeners = {}) =>
          /\ audios' = audios
          /\ loadedBulletinTimes' = loadedBulletinTimes
          /\ currentTestAudio' = currentTestAudio
          /\ Len(probes') = Len(probes)]_vars

\* C3: when the hoursBack=0 probe of a request failed and its hoursBack=1
\* probe became playable, loadStation was called exactly once for the request,
\* with the hoursBack=1 URL and the hoursBack=1 hour label.
C3_FallbackSuccessLoadsOnce ==
  \A p0, p1 \in ProbeIds :
    ( /\ probes[p0].req = probes[p1].req
      /\ probes[p0].attemptHoursBack = 0 /\ probes[p0].outcome = "error"
      /\ probes[p1].attemptHoursBack = 1 /\ probes[p1].outcome = "canplay" )
    => /\ Cardinality(LoadsOf(probes[p1].req)) = 1
       /\ \A a \in LoadsOf(probes[p1].req) :
            /\ audios[a].url =
                 (IF probes[p1].type = "rnz" THEN getRNZNewsURL(probes[p1].at, 1)
                  ELSE getZBNewsURL(probes[p1].at, 1))
            /\ audios[a].name =
                 probes[p1].name \o <<" ">> \o probes[p1].hour \o <<":00 News">>

C3_Witness ==
  \E p0, p1 \in ProbeIds :
    /\ probes[p0].req = probes[p1].req
    /\ probes[p0].attemptHoursBack = 0 /\ probes[p0].outcome = "error"
    /\ probes[p1].attemptHoursBack = 1 /\ probes[p1].outcome = "canplay"
    /\ audio \in LoadsOf(probes[p1].req)

\* the requests whose two probes both reported error
BothFailed ==
  {r \in 1..nreq :
     \E p0, p1 \in ProbeIds :
       /\ probes[p0].req = r /\ probes[p1].req = r
       /\ probes[p0].attemptHoursBack = 0 /\ probes[p0].outcome = "error"
       /\ probes[p1].attemptHoursBack = 1 /\ probes[p1].outcome = "error"}

UnavailableNotices ==
  {i \in 1..Len(toasts) : toasts[i].kind = "News Bulletin Unavailable"}

\* C4: when both probes of a request failed, loadStation was called exactly
\* once for it, with the hoursBack=1 URL, and exactly one failure notice was
\* emitted for it.
C4_BothFailLoadsOnceOneNotice ==
  /\ \A r \in BothFailed :
       /\ Cardinality(LoadsOf(r)) = 1
       /\ \A a \in LoadsOf(r) : \A p \in ProbeIds :
            (probes[p].req = r /\ probes[p].attemptHoursBack = 1) =>
               /\ audios[a].url = probes[p].url
               /\ audios[a].url =
                    (IF probes[p].type = "rnz" THEN getRNZNewsURL(probes[p].at, 1)
                     ELSE getZBNewsURL(probes[p].at, 1))
  /\ Cardinality(UnavailableNotices) = Cardinality(BothFailed)

C4_Witness ==
  /\ BothFailed # {}
  /\ \E r \in BothFailed : audio \in LoadsOf(r)
  /\ UnavailableNotices # {}

LoadEvents ==
  {"canplay", "error", "waiting", "playing", "ended", "loadedmetadata",
   "durationchange", "timeupdate"}

\* C5: at the moment loadStation creates the new handle, every earlier handle
\* is paused and carries no observer; no handle other than the live one ever
\* carries observers, so no handler can run for a superseded handle.
C5_OldSessionDetachedBeforeNew ==
  /\ \A a \in AudioIds : audios[a].observedBefore = {} /\ audios[a].othersPaused
  /\ WithObservers(State) \subseteq {audio}

\* a session that had started playing was superseded by a new load
C5_Witness ==
  /\ Len(audios) >= 2 /\ audio = Len(audios)
  /\ playing /\ audios[audio].paused
  /\ \A a \in AudioIds \ {audio} : audios[a].paused /\ audios[a].listeners = <<>>

BfmTimers == {t \in intervals : t.kind = "bfm"}

\* C7: at most one MetadataPoll interval is active, and it is the one
\* bfmNowPlayingInterval holds: re-arming cancelled every earlier one.
C7_AtMostOneMetadataPoll ==
  /\ Cardinality(BfmTimers) <= 1
  /\ \A t \in BfmTimers : t.id = bfmNowPlayingInterval

\* station X was loaded, left and loaded again, or loaded twice in succession
C7_Witness ==
  /\ \E a, b \in AudioIds :
       a < b /\ audios[a].name = BFM /\ audios[b].name = BFM /\ audio = b
  /\ Cardinality(BfmTimers) = 1

\* C8: after a loadStation call and until teardown, the MetadataPoll timer is
\* armed if and only if the current session is station X.
C8_PollArmedIffStationX ==
  (currentStation.set /\ ~tornDown) =>
    /\ (BfmTimers # {}) <=> (currentStation.name = BFM)
    /\ (bfmNowPlayingInterval # NoId) <=> (currentStation.name = BFM)

\* station X was playing and another station or a bulletin was loaded
C8_Witness ==
  /\ \E a \in AudioIds : audios[a].name = BFM /\ a < audio
  /\ currentStation.set /\ currentStation.name # BFM
  /\ BfmTimers = {} /\ ~tornDown

\* C9: in a run of consecutive failed fetches the warning has been emitted
\* exactly once as soon as the run has 3 failures, and not before.
C9_OneWarningPerFailureRun ==
  /\ consecFails >= 3 => warningsInRun = 1
  /\ consecFails < 3 => warningsInRun = 0

\* C10: a fetch that completes as a success leaves the failure counter at 0
\* (no fetch has failed since the last success => the counter is 0).
C10_SuccessResetsCounter ==
  consecFails = 0 => bfmMetadataFailures = 0

\* the session is seekable: its duration is finite and positive and its
\* seekable range is non-empty
SessionSeekable ==
  /\ audio # NoId
  /\ audios[audio].duration # NaN /\ audios[audio].duration # Infinity
  /\ audios[audio].duration > 0
  /\ audios[audio].seekable

\* a step of one of the six seek operations
SeekOperation ==
  \/ SkipBack \/ SkipForward \/ ScrubInput
  \/ MediaSeekBackward \/ MediaSeekForward \/ MediaSeekTo

\* C11: a seek operation on a session that is not seekable leaves the current
\* time of the audio unchanged.
C11_SeekIsNoOpUnlessSeekable ==
  [][(SeekOperation /\ ~SessionSeekable) =>
        /\ audio' = audio
        /\ audio # NoId =>
             audios'[audio].currentTime = audios[audio].currentTime]_vars

\* C12: after a seek operation on a seekable session the current time lies
\* in [0, duration].
C12_SeekStaysInRange ==
  [][(SeekOperation /\ SessionSeekable) =>
        /\ audios'[audio'].currentTime >= 0
        /\ audios'[audio'].currentTime <= audios'[audio'].duration]_vars

\* a seek on a seekable session was clamped to the end of the media: a
\* position other than 0 is reached by a seek only
C12_Witness ==
  /\ SessionSeekable
  /\ audios[audio].currentTime > 0
  /\ audios[audio].currentTime = audios[audio].duration

\* C13: the bulletin controls are visible and enabled if and only if the
\* current session is classified as bulletin and is seekable.
C13_ControlsVisibleIffSeekableBulletin ==
  ~tornDown =>
    (controlsVisible <=>
       (currentStation.set /\ currentStation.isBulletin /\ SessionSeekable))

\* the current session was loaded from the URL of a station button
LiveSession ==
  currentStation.set /\ \E st \in Stations : st.url = currentStation.url

\* C14: the scrub controls are not visible while the current session is a
\* live stream, and while they are visible the duration last reported for the
\* current handle is finite and positive (so one has been reported).
C14_NoControlsForLiveOrBeforeDuration ==
  /\ LiveSession => ~controlsVisible
  /\ (controlsVisible /\ ~tornDown) =>
       /\ audio # NoId
       /\ isFinite(audios[audio].duration) /\ audios[audio].duration > 0

\* a live stream with a seekable range was current and hid the controls, then
\* a bulletin reported its duration and the controls are shown
C14_Witness ==
  /\ controlsVisible /\ audio # NoId /\ audios[audio].duration = SeekMaxTime
  /\ ~LiveSession
  /\ \E a \in AudioIds :
       /\ a < audio /\ audios[a].seekable /\ audios[a].duration = Infinity
       /\ IncludesNews(audios[a].name)

\* the label the zone clock gives at instant c in a browser of zone z: its
\* hour, zero-padded, ":00 bulletin"
LabelAt(c, z) ==
  Pad2(getNZDTTime([clock |-> c, localZone |-> z]).hour) \o <<":00", " bulletin">>

ZoneHourLabel == LabelAt(clock, localZone)

\* C15: right after a click on a station button both markers are unset and
\* both labels show the current zone hour.
C15_StationClickResetsLabels ==
  [][(Len(audios') > Len(audios) /\ ClickStation) =>
       \A type \in Types :
         /\ loadedBulletinTimes'[type] = Null
         /\ newsTime'[type] = LabelAt(clock', localZone')]_vars

\* a bulletin of another hour than the current one was pinned, then a station
\* button was clicked
C15_Witness ==
  /\ LiveSession /\ audio # NoId /\ audios[audio].req = 0
  /\ \E p \in ProbeIds :
       /\ probes[p].outcome = "canplay"
       /\ probes[p].hour # Pad2(getNZDTTime(State).hour)
  /\ \A type \in Types :
       loadedBulletinTimes[type] = Null /\ newsTime[type] = ZoneHourLabel

\* the label of every source whose marker is set to H reads "H:00 bulletin"
PinnedLabels ==
  \A type \in Types :
    loadedBulletinTimes[type] # Null =>
      newsTime[type] = loadedBulletinTimes[type] \o <<":00", " bulletin">>

\* C16: a pinned label reads "H:00 bulletin" for the marker H; a ClockRefresh
\* firing leaves every pinned label as it is and rewrites every other label
\* from the zone clock.
C16_RefreshKeepsPinnedLabels ==
  /\ []PinnedLabels
  /\ [][NewsTimerFires =>
          \A type \in Types :
            IF loadedBulletinTimes[type] # Null
            THEN newsTime'[type] = newsTime[type]
            ELSE newsTime'[type] = LabelAt(clock', localZone')]_vars

\* no station button was ever clicked, one source is pinned by a bulletin
\* probed in an earlier hour, and the label of the other source shows the
\* current hour: the timer rewrote it after the hour changed
C16_Witness ==
  /\ \A a \in AudioIds : audios[a].req # 0
  /\ \E type \in Types, p \in ProbeIds :
       /\ loadedBulletinTimes[type] # Null
       /\ probes[p].type = type /\ probes[p].outcome = "canplay"
       /\ probes[p].at.hour # getNZDTTime(State).hour
       /\ newsTime[type] # ZoneHourLabel
       /\ \E other \in Types \ {type} :
            loadedBulletinTimes[other] = Null /\ newsTime[other] = ZoneHourLabel

NewsTimers == {t \in intervals : t.kind = "news"}

\* the program state without the history of the initializePlayer calls
Program(s) == [s EXCEPT !.initCalls = 0]

\* C17: once initializePlayer has run, and until teardown, exactly one
\* ClockRefresh timer is armed (the one newsUpdateInterval holds) and the
\* button handlers are registered once; a call after the first changes nothing.
C17_InitializeOnce ==
  /\ [](IF isPlayerInitialized
        THEN /\ registrations = 1
             /\ ~tornDown =>
                  /\ Cardinality(NewsTimers) = 1
                  /\ \A t \in NewsTimers : t.id = newsUpdateInterval
        ELSE registrations = 0 /\ NewsTimers = {})
  /\ [][(isPlayerInitialized /\ InitializePlayer) =>
          Program(State)' = Program(State)]_vars

\* initializePlayer was called again after the page was in use
C17_Witness ==
  /\ initCalls >= 2 /\ isPlayerInitialized /\ audio # NoId
  /\ registrations = 1 /\ Cardinality(NewsTimers) = 1

\* ------------------------------------------------ calendar of the claims
\* days since 1 January 1970 of a civil date, and back
DaysFromCivil(y, m, d) ==
  LET yy == IF m <= 2 THEN y - 1 ELSE y
      era == yy \div 400
      yoe == yy - era * 400
      mp == IF m > 2 THEN m - 3 ELSE m + 9
      doy == ((153 * mp + 2) \div 5) + d - 1
      doe == yoe * 365 + (yoe \div 4) - (yoe \div 100) + doy
  IN era * 146097 + doe - 719468

CivilFromDays(z) ==
  LET zz == z + 719468
      era == zz \div 146097
      doe == zz - era * 146097
      yoe == (doe - (doe \div 1460) + (doe \div 36524) - (doe \div 146096)) \div 365
      doy == doe - (365 * yoe + (yoe \div 4) - (yoe \div 100))
      mp == (5 * doy + 2) \div 153
      d == doy - ((153 * mp + 2) \div 5) + 1
      m == IF mp < 10 THEN mp + 3 ELSE mp - 9
      y == yoe + era * 400
  IN [year |-> IF m <= 2 THEN y + 1 ELSE y, month |-> m, day |-> d]

\* the wall-clock reading n hours before reading r
HoursBefore(r, n) ==
  LET total == DaysFromCivil(r.year, r.month, r.day) * 24 + r.hour - n
      date == CivilFromDays(total \div 24)
  IN [year |-> date.year, month |-> date.month, day |-> date.day,
      hour |-> total % 24]

YYYY(y) ==
  <<DigitChar(y \div 1000), DigitChar((y \div 100) % 10),
    DigitChar((y \div 10) % 10), DigitChar(y % 10)>>

TwoDigits(n) == <<DigitChar(n \div 10), DigitChar(n % 10)>>

\* https://podcast.radionz.co.nz/news/YYYYMMDD-HH00-064.mp3 and
\* https://weekondemand.newstalkzb.co.nz/WeekOnDemand/ZB/auckland/YYYY.MM.DD-HH.00.00-D.mp3
ExpectedURL(type, r) ==
  IF type = "rnz"
  THEN <<"https://", "podcast.radionz.co.nz", "/news/">>
         \o YYYY(r.year) \o TwoDigits(r.month) \o TwoDigits(r.day) \o <<"-">>
         \o TwoDigits(r.hour) \o <<"0", "0", "-064", ".mp3">>
  ELSE <<"https://", "weekondemand.newstalkzb.co.nz", "/WeekOnDemand/ZB/auckland/">>
         \o YYYY(r.year) \o <<".">> \o TwoDigits(r.month) \o <<".">>
         \o TwoDigits(r.day) \o <<"-">> \o TwoDigits(r.hour)
         \o <<".", "0", "0", ".", "0", "0", "-D", ".mp3">>

\* C18: the URL of every probe is the URL pattern of its source filled with
\* the year, month, day and hour of its clock reading minus hoursBack hours,
\* zero-padded.
C18_ResolverURLFormat ==
  \A p \in ProbeIds :
    probes[p].url =
      ExpectedURL(probes[p].type,
                  HoursBefore(probes[p].at, probes[p].attemptHoursBack))

\* the last day of the month before month m of year y
LastDayBefore(y, m) ==
  LET py == IF m = 1 THEN y - 1 ELSE y
      pm == IF m = 1 THEN 12 ELSE m - 1
      feb == IF (py % 4 = 0 /\ py % 100 # 0) \/ py % 400 = 0 THEN 29 ELSE 28
  IN [year |-> py, month |-> pm,
      day |-> <<31, feb, 31, 30, 31, 30, 31, 31, 30, 31, 30, 31>>[pm],
      hour |-> 23]

\* C19: the hoursBack=1 probe made at hour 00 on the 1st of a month has the
\* URL of hour 23 on the last day of the previous month (31 December of the
\* previous year on 1 January).
C19_BorrowAcrossBoundaries ==
  \A p \in ProbeIds :
    ( /\ probes[p].attemptHoursBack = 1
      /\ probes[p].at.hour = 0 /\ probes[p].at.day = 1 )
    => probes[p].url =
         ExpectedURL(probes[p].type,
                     LastDayBefore(probes[p].at.year, probes[p].at.month))

\* the fallback of a request made at 00:xx on 1 March of a leap year probes
\* 29 February, hour 23
C19_Witness ==
  \E p \in ProbeIds :
    /\ probes[p].attemptHoursBack = 1 /\ probes[p].type = "rnz"
    /\ probes[p].at.year = 2024 /\ probes[p].at.month = 3
    /\ probes[p].at.day = 1 /\ probes[p].at.hour = 0
    /\ probes[p].url = <<"https://", "podcast.radionz.co.nz", "/news/",
                         "2", "0", "2", "4", "0", "2", "2", "9", "-",
                         "2", "3", "0", "0", "-064", ".mp3">>

\* New Zealand daylight time in 2024 and 2025, in UTC: until 6 April 2024
\* 14:00, from 28 September 2024 14:00 until 5 April 2025 14:00, and from
\* 27 September 2025 14:00
InDaylightTime(utc) ==
  LET at(y, m, d) == [year |-> y, month |-> m, day |-> d, hour |-> 14]
  IN \/ Before(utc, at(2024, 4, 6))
     \/ ~Before(utc, at(2024, 9, 28)) /\ Before(utc, at(2025, 4, 5))
     \/ ~Before(utc, at(2025, 9, 27))

\* the wall clock of Pacific/Auckland at an instant
WallClock(utc) == AddHours(utc, IF InDaylightTime(utc) THEN 13 ELSE 12)

\* C20: the clock reading taken at an instant has the year, month, day and
\* hour of the Pacific/Auckland wall clock at that instant.
C20_ReadingIsZoneWallClock ==
  \A p \in ProbeIds :
    LET r == probes[p].at
    IN [year |-> r.year, month |-> r.month, day |-> r.day, hour |-> r.hour]
         = WallClock(probes[p].instant)

\* the toasts a removal was started for in this step
Dismissed == {i \in 1..Len(toasts) : toasts'[i].removals > toasts[i].removals}

\* C21: an error of the current session leaves the session (url, name, handle)
\* as it is, turns the on-air indicator off and emits one notice with a retry
\* action for the url and name of the session; a click on the retry action
\* calls loadStation with exactly that url and name.
C21_ErrorKeepsSessionAndOffersRetry ==
  /\ [][AudioError =>
          /\ audio' = audio /\ audios' = audios
          /\ currentStation' = currentStation
          /\ currentAudioListeners' = currentAudioListeners
          /\ ~onAir'
          /\ Len(toasts') = Len(toasts) + 1
          /\ toasts'[Len(toasts')].retry =
               [set |-> TRUE, url |-> audios[audio].url,
                name |-> audios[audio].name]
          /\ currentStation.url = audios[audio].url
          /\ currentStation.name = audios[audio].name]_vars
  /\ [][ToastRetry =>
          \A i \in Dismissed :
            /\ Len(audios') = Len(audios) + 1 /\ audio' = Len(audios')
            /\ audios'[audio'].url = toasts[i].retry.url
            /\ audios'[audio'].name = toasts[i].retry.name
            /\ currentStation'.url = toasts[i].retry.url
            /\ currentStation'.name = toasts[i].retry.name]_vars

\* a session failed and the retry action of its notice loaded the same url and
\* name again, superseding the failed handle
C21_Witness ==
  /\ ~onAir /\ Len(audios) >= 2 /\ audio = Len(audios)
  /\ \E i \in 1..Len(toasts) :
       /\ toasts[i].retry.set /\ toasts[i].removals > 0
       /\ audios[audio].url = toasts[i].retry.url
       /\ audios[audio].name = toasts[i].retry.name
       /\ audios[audio - 1].url = toasts[i].retry.url
       /\ audios[audio - 1].paused

\* the fields of every handle but paused and its history field held
Unpaused(handles) ==
  [a \in 1..Len(handles) |-> [handles[a] EXCEPT !.paused = FALSE, !.held = FALSE]]

\* C22: right after the offline event the current handle is paused; the
\* session, the observers and the timers are as they were.
C22_OfflinePausesPlayback ==
  [][GoOffline =>
       /\ audio # NoId => audios'[audio].paused
       /\ audio' = audio /\ Unpaused(audios') = Unpaused(audios)
       /\ \A a \in AudioIds \ {audio} : audios'[a] = audios[a]
       /\ currentStation' = currentStation
       /\ currentAudioListeners' = currentAudioListeners
       /\ intervals' = intervals
       /\ newsUpdateInterval' = newsUpdateInterval
       /\ bfmNowPlayingInterval' = bfmNowPlayingInterval]_vars

\* the only session was playing when the connection was lost: it is paused,
\* and the page still holds it
C22_Witness ==
  /\ ~online /\ Len(audios) = 1 /\ audio = 1
  /\ playing /\ audios[audio].paused
  /\ Len(audios[audio].listeners) = 8

OfflineNotices == {i \in 1..Len(toasts) : toasts[i].kind = "No Internet Connection"}

\* C23: the offline event emits one notice that never expires by itself, and
\* every online event after it emits one transient "Back Online" notice.
C23_OfflineNoticeThenConfirmation ==
  /\ [](\A i \in OfflineNotices : toasts[i].duration = 0 /\ ~toasts[i].timer)
  /\ [][GoOffline =>
          /\ Len(toasts') = Len(toasts) + 1
          /\ Len(toasts') \in OfflineNotices']_vars
  /\ [][GoOnline =>
          /\ Len(toasts') = Len(toasts) + 1
          /\ toasts'[Len(toasts')].kind = "Back Online"
          /\ toasts'[Len(toasts')].duration > 0]_vars

\* C24: at most MAX_TOASTS toasts are displayed, activeToasts is the number
\* of displayed toasts (so never negative), a toast is queued exactly when it
\* is made while MAX_TOASTS are displayed, the queued toasts are not displayed
\* and wait only while MAX_TOASTS are displayed.
C24_ToastsBoundedAndCounted ==
  /\ [](/\ Cardinality(Displayed(State)) <= MAX_TOASTS
        /\ activeToasts = Cardinality(Displayed(State))
        /\ activeToasts >= 0
        /\ \A k \in 1..Len(toastQueue) :
             /\ toastQueue[k] \in 1..Len(toasts)
             /\ ~toasts[toastQueue[k]].shown
             /\ toasts[toastQueue[k]].queued
        /\ toastQueue # <<>> => activeToasts = MAX_TOASTS)
  /\ [][Len(toasts') > Len(toasts) =>
          /\ Len(toasts') = Len(toasts) + 1
          /\ IF activeToasts >= MAX_TOASTS
             THEN /\ toastQueue' = Append(toastQueue, Len(toasts'))
                  /\ activeToasts' = activeToasts
             ELSE /\ toasts'[Len(toasts')].shown
                  /\ toastQueue' = toastQueue
                  /\ activeToasts' = activeToasts + 1]_vars

\* a toast was queued behind three displayed ones and is displayed now, and a
\* further removal is pending for a toast that was already removed
C24_Witness ==
  /\ activeToasts = MAX_TOASTS
  /\ \E i, j \in 1..Len(toasts) :
       /\ toasts[j].queued /\ toasts[j].shown
       /\ ~toasts[i].shown /\ ~toasts[i].queued /\ toasts[i].removals > 0

\* neither recurring timer is armed
TimersDisarmed ==
  intervals = {} /\ newsUpdateInterval = NoId /\ bfmNowPlayingInterval = NoId

\* no playback handle is live, and every handle made is paused with no
\* listener attached
PlaybackReleased ==
  /\ audio = NoId /\ currentAudioListeners = <<>>
  /\ \A a \in AudioIds : audios[a].paused /\ Len(audios[a].listeners) = 0

\* C25: after the beforeunload handler ran, neither recurring timer is armed,
\* the playback handle is paused, its listeners detached and the handle
\* released, and no probe is outstanding with listeners attached.
C25_TeardownReleasesEverything ==
  tornDown =>
    /\ TimersDisarmed
    /\ PlaybackReleased
    /\ currentTestAudio = NoId
    /\ \A p \in ProbeIds : ~Outstanding(p)

\* what does hold after the beforeunload handler ran
C25_TimersAndPlaybackReleased ==
  tornDown => TimersDisarmed /\ PlaybackReleased /\ currentTestAudio = NoId

EventIds == 1..Len(swEvents)

\* the URL is on one of the audio-stream or bulletin hosts or on the CORS proxy
StreamOrProxyHost(url) ==
  /\ Len(url.hostname) = 1
  /\ url.hostname[1] \in streamHosts \cup {"api.allorigins.win"}

\* C26: a request to an audio-stream or bulletin host or to the CORS proxy,
\* document requests included, is given the bare network fetch: it is never
\* answered from the cache, its answer is the response of its own network
\* fetch (or the network's failure), and neither the cache nor a cache.put
\* under way holds a response for such a host.
C26_StreamsAndProxyNeverCached ==
  /\ \A r \in cache \cup swPuts : ~StreamOrProxyHost(r.url)
  /\ \A e \in EventIds :
       LET ev == swEvents[e]
       IN StreamOrProxyHost(ev.request.url) =>
            /\ ev.route \in {"stream", "proxy"}
            /\ ev.pc \in {"fetch", "done"}
            /\ ev.answer.from # "cache"
            /\ ev.pc = "done" =>
                 IF ev.net = "failed" THEN ev.answer = NetworkError
                 ELSE ev.answer = [from |-> "network",
                                   resp |-> [url |-> ev.request.url,
                                             ok |-> ev.net = "ok", n |-> e]]

\* a document request to a stream host was answered by an ok network response
\* while the cache already holds a response another event wrote to it
C26_Witness ==
  \E e \in EventIds :
    /\ StreamOrProxyHost(swEvents[e].request.url)
    /\ swEvents[e].request.destination = "document"
    /\ swEvents[e].answer.from = "network" /\ swEvents[e].answer.resp.ok
    /\ \E r \in cache : r.n > 0

\* the document requests the network-first strategy is applied to (the ones
\* to a stream or proxy host are given the bare network fetch, C26)
DocumentEvent(e) ==
  /\ swEvents[e].request.destination = "document"
  /\ ~isAudioStream(swEvents[e].request.url)
  /\ ~isCorsProxy(swEvents[e].request.url)

OfflinePageUrl == [hostname |-> OriginHost, pathname |-> OFFLINE_PAGE]

\* C27: for a document request, when the network answers the answer is that
\* network response, and a cache.put of it is started exactly when it is ok;
\* when the network fails the cache is asked for the request and its answer,
\* if it has one, is the answer; otherwise the cache is asked for the offline
\* page, which it holds, and that is the answer.
C27_DocumentNetworkFirst ==
  /\ [](\A e \in EventIds :
          DocumentEvent(e) =>
            /\ swEvents[e].route = "networkFirst"
            /\ (swEvents[e].pc = "done" /\ swEvents[e].net # "failed") =>
                 swEvents[e].answer =
                   [from |-> "network",
                    resp |-> [url |-> swEvents[e].request.url,
                              ok |-> swEvents[e].net = "ok", n |-> e]]
            /\ (swEvents[e].pc = "done" /\ swEvents[e].net = "failed") =>
                 /\ swEvents[e].answer.from = "cache"
                 /\ swEvents[e].answer.resp.url \in
                      {swEvents[e].request.url, OfflinePageUrl})
  /\ [][\A e \in EventIds :
          DocumentEvent(e) =>
            /\ (swEvents[e].net = "none" /\ swEvents'[e].net = "ok") =>
                 swPuts' = swPuts \cup {swEvents'[e].answer.resp}
            /\ (swEvents[e].net = "none" /\ swEvents'[e].net \in {"notok", "failed"}) =>
                 swPuts' = swPuts
            /\ (swEvents[e].pc = "fallback" /\ swEvents'[e] # swEvents[e]) =>
                 LET hit == CacheMatch(cache, swEvents[e].request.url)
                 IN IF hit # {}
                    THEN /\ swEvents'[e].pc = "done"
                         /\ swEvents'[e].answer.resp \in hit
                    ELSE swEvents'[e].pc = "offline"
            /\ (swEvents[e].pc = "offline" /\ swEvents'[e] # swEvents[e]) =>
                 /\ swEvents'[e].pc = "done"
                 /\ swEvents'[e].answer.resp \in CacheMatch(cache, OfflinePageUrl)
            /\ (swEvents[e].net = "none" /\ swEvents'[e].net = "failed") =>
                 swEvents'[e].pc = "fallback"]_vars

\* the network answered one document request with an ok response, which is in
\* the cache now; it failed for another document, which the cache does not
\* hold and which was answered with the cached offline page
C27_Witness ==
  \E e, f \in EventIds :
    /\ DocumentEvent(e) /\ DocumentEvent(f)
    /\ swEvents[e].net = "ok" /\ swEvents[e].answer.resp \in cache
    /\ swEvents[f].net = "failed" /\ swEvents[f].pc = "done"
    /\ swEvents[f].answer.from = "cache"
    /\ swEvents[f].answer.resp.url = OfflinePageUrl
    /\ swEvents[f].request.url # OfflinePageUrl

\* the URLs of saved that have a button, each once, in the order of their
\* first occurrence in saved
RECURSIVE SavedWithButton(_, _)
SavedWithButton(saved, buttons) ==
  IF saved = <<>> THEN <<>>
  ELSE LET front == SavedWithButton(SubSeq(saved, 1, Len(saved) - 1), buttons)
           last == saved[Len(saved)]
       IN IF last \in Range(buttons) /\ last \notin Range(front)
          THEN Append(front, last) ELSE front

\* the list of URLs restoreStationOrder reads from the local storage
SavedOrder ==
  IF stationOrderV1 = Null THEN <<>>
  ELSE LET parsed == JSONParse(stationOrderV1)
       IN IF parsed.kind = "array" THEN parsed.value ELSE <<>>

\* initializePlayer runs for the first time on the page
Restores == ~isPlayerInitialized /\ isPlayerInitialized'

\* C28: restoreStationOrder makes a permutation of the buttons: the buttons
\* whose URL is saved come first, in saved order, a saved URL without a
\* button is ignored, and the other buttons follow in their original order;
\* saveStationOrder writes the displayed order, and restoring a written order
\* of the page's buttons displays that order.
C28_RestoreIsSavedThenRest ==
  /\ [][Restores =>
         LET first == SavedWithButton(SavedOrder, stationsList)
         IN /\ Len(stationsList') = Len(stationsList)
            /\ Range(stationsList') = Range(stationsList)
            /\ SubSeq(stationsList', 1, Len(first)) = first
            /\ SubSeq(stationsList', Len(first) + 1, Len(stationsList')) =
                 SelectSeq(stationsList, LAMBDA b : b \notin Range(SavedOrder))
            /\ \A o \in Orders(Range(stationsHtml)) :
                 stationOrderV1 = JSONStringify(o) => stationsList' = o]_vars
  /\ [][stationOrderV1' # stationOrderV1 =>
          /\ stationOrderV1' = JSONStringify(stationsList')
          /\ JSONParse(stationOrderV1') =
               [kind |-> "array", value |-> stationsList']]_vars

\* a button was dragged, the page left and opened again, and the restored
\* order is the dragged one, which is not the order of the page
C28_WitnessRoundTrip ==
  /\ isPlayerInitialized /\ ~tornDown
  /\ Len(stationsList) = 3
  /\ stationsList # stationsHtml
  /\ stationOrderV1 = JSONStringify(stationsList)

\* a saved list that names a URL without a button and leaves two buttons out
\* was restored
C28_Witness ==
  /\ isPlayerInitialized
  /\ stationOrderV1 = JSONStringify(<<GoneUrl, HtmlOrder[3]>>)
  /\ stationsList = <<HtmlOrder[3], HtmlOrder[1], HtmlOrder[2]>>

\* the load that the canplay handler of probe p made
LoadedByCanplayOf(a, p) ==
  /\ probes[p].outcome = "canplay"
  /\ audios[a].req = probes[p].req
  /\ audios[a].url = probes[p].url
  /\ audios[a].name = probes[p].name \o <<" ">> \o probes[p].hour \o <<":00 News">>

\* C29: when the canplay handler of a probe calls loadStation, the probe has
\* been released already: at the load no probe of the request has a listener
\* attached; and when the handler is done the probe has no listener and is
\* not tracked.
C29_ProbeReleasedBeforeLoad ==
  \A p \in ProbeIds, a \in AudioIds :
    LoadedByCanplayOf(a, p) =>
      /\ ~audios[a].probeAttached
      /\ probes[p].listeners = {}
      /\ currentTestAudio # p

\* what holds of the canplay handler: when it is done, the probe has no
\* listener attached and is not tracked
C29_ProbeReleasedAfterLoad ==
  \A p \in ProbeIds :
    probes[p].outcome = "canplay" =>
      probes[p].listeners = {} /\ currentTestAudio # p

ProbesOf(r) == {p \in ProbeIds : probes[p].req = r}

\* the probes of request r are one hoursBack=0 probe and, made after it had
\* failed, at most one hoursBack=1 probe
AtMostTwoProbes(r) ==
  /\ Cardinality(ProbesOf(r)) <= 2
  /\ Cardinality({p \in ProbesOf(r) : probes[p].attemptHoursBack = 0}) = 1
  /\ \A p \in ProbesOf(r) :
       /\ probes[p].attemptHoursBack \in {0, 1}
       /\ probes[p].attemptHoursBack = 1 =>
            \E q \in ProbesOf(r) :
              /\ q < p /\ probes[q].attemptHoursBack = 0
              /\ probes[q].outcome = "error"

\* every request made has ended: one load, and no probe left to report
AllResolved ==
  /\ \A r \in 1..nreq : Cardinality(LoadsOf(r)) = 1
  /\ \A p \in ProbeIds : probes[p].listeners = {} /\ ~Outstanding(p)
  /\ currentTestAudio = NoId

\* C30: a bulletin request makes at most two probes, hoursBack 0 and then
\* hoursBack 1, and never loads more than once; when every probe reports in
\* the end, the requests made all end with exactly one load and no probe
\* outstanding, and stay so.
C30_TwoProbesThenOneLoad ==
  /\ [](\A r \in 1..nreq :
          AtMostTwoProbes(r) /\ Cardinality(LoadsOf(r)) <= 1)
  /\ <>[]AllResolved

\* two requests have ended, one of them by the load that follows its failed
\* hoursBack=1 probe
C30_Witness ==
  /\ nreq = 2 /\ AllResolved
  /\ \E p \in ProbeIds :
       probes[p].attemptHoursBack = 1 /\ probes[p].outcome = "error"

\* the candidate URL of a source for the zone-clock reading at, hoursBack back
CandidateUrl(type, at, hoursBack) ==
  IF type = "rnz" THEN getRNZNewsURL(at, hoursBack) ELSE getZBNewsURL(at, hoursBack)

\* C31: the hoursBack=1 probe of a request probes the URL of the hour before
\* the hour its hoursBack=0 probe probed.
C31_FallbackIsPreviousHour ==
  \A p0, p1 \in ProbeIds :
    ( /\ probes[p0].req = probes[p1].req
      /\ probes[p0].attemptHoursBack = 0 /\ probes[p1].attemptHoursBack = 1 )
    => /\ probes[p1].url = CandidateUrl(probes[p1].type, probes[p0].at, 1)
       /\ probes[p1].url # probes[p0].url

\* what holds: the fallback URL is the hour before the reading taken when the
\* fallback attempt starts
C31_FallbackIsHourBeforeItsOwnReading ==
  \A p \in ProbeIds :
    probes[p].url = CandidateUrl(probes[p].type, probes[p].at,
                                 probes[p].attemptHoursBack)

\* the HH field of a candidate URL: the two digits after the date's "-"
UrlHour(url) ==
  LET i == CHOOSE i \in 1..Len(url) : url[i] = "-" /\ \A j \in 1..(i - 1) : url[j] # "-"
  IN <<url[i + 1], url[i + 2]>>

\* C32: the hour label of every probe attempt (used for the button label, the
\* marker and the session name) equals the HH field of the URL it probes.
C32_LabelHourIsUrlHour ==
  \A p \in ProbeIds : probes[p].hour = UrlHour(probes[p].url)

\* C33: the on-air indicator shows ON AIR only if a playback handle exists and
\* is not paused.
C33_OnAirOnlyWhilePlaying ==
  onAir => (audio # NoId /\ ~audios[audio].paused)

\* the slider shows the live handle: its position and its duration (0 while
\* the duration is not finite)
ScrubMirrorsAudio ==
  /\ scrubSlider.value = audios[audio].currentTime
  /\ scrubSlider.max = IF isFinite(audios[audio].duration)
                       THEN audios[audio].duration ELSE 0

\* C34: while the slider is not dragged each timeupdate sets the slider to the
\* current time and the duration, and once a new session is loaded the drag
\* flag isScrubbing is false.
C34_ScrubFollowsPlaybackAndFlagResets ==
  [][ /\ (~isScrubbing /\ AudioTimeUpdate) => ScrubMirrorsAudio'
      /\ Len(audios') > Len(audios) => ~isScrubbing' ]_vars

\* what holds: the part about the timeupdate events
C34_TimeUpdateSetsScrub ==
  [][(~isScrubbing /\ AudioTimeUpdate) => ScrubMirrorsAudio']_vars

\* C35: whenever the current session is a live station, the marker of both
\* sources is unset.
C35_LiveSessionHasNoMarker ==
  LiveSession => \A type \in Types : loadedBulletinTimes[type] = Null

\* C36: when a live station was selected after the bulletin request, a canplay
\* or error event of the request's probes delivered later does not replace the
\* live session, set a marker or change the now-playing text.
C36_LateProbeKeepsLiveSession ==
  [][ (LiveSession /\ (ProbeCanplay \/ ProbeError))
      => /\ audio' = audio /\ currentStation' = currentStation
         /\ loadedBulletinTimes' = loadedBulletinTimes
         /\ nowPlaying' = nowPlaying ]_vars

\* C37: a handle that was paused by the user or by connectivity loss stays
\* paused as long as it is the current session and no play action of the user
\* runs; a canplay event does not restart it.
C37_HeldStaysPaused ==
  [][ ( /\ audio # NoId /\ audios[audio].held
        /\ audio' = audio /\ ~(ClickPlayPause \/ MediaPlay) )
      => audios'[audio].paused ]_vars

\* the current session is the station X (95bFM) session
OnBfm == currentStation.set /\ currentStation.name = BFM

\* C38: a fetch that fails while the current session is not station X neither
\* increments the failure counter nor emits the warning, and a new station-X
\* session starts with the counter at zero.
C38_FailuresCountInsideSession ==
  [][ /\ (~OnBfm /\ FetchFails)
         => (bfmMetadataFailures' = bfmMetadataFailures /\ toasts' = toasts)
      /\ (Len(audios') > Len(audios) /\ OnBfm') => bfmMetadataFailures' = 0 ]_vars

\* C39: a session loaded from a station button is not classified as a bulletin
\* (isBulletin is false, so the media-session artist is 'Live Radio'); only a
\* session loaded by a bulletin request is.
C39_OnlyBulletinRequestsAreBulletins ==
  (audio # NoId /\ currentStation.set)
    => (currentStation.isBulletin <=> audios[audio].req # 0)

\* a timer of the toast system is pending: an auto-remove timer or the
\* removal that removeToast scheduled
ToastTimerPending ==
  \E i \in 1..Len(toasts) : toasts[i].timer \/ toasts[i].removals > 0

\* C40: a queued toast never waits forever when nobody dismisses a toast:
\* while a toast is queued a timer is pending whose firing makes room for it.
C40_QueuedToastIsAwaited ==
  toastQueue # <<>> => ToastTimerPending

====
